---- MODULE Spec2Model ----
(***************************************************************************)
(* A model of the python_agent package: Session and SessionManager         *)
(* (session.py) and Agent with its interactive loop (agent.py).            *)
(*                                                                         *)
(* Text is a sequence of one-character strings, so that strip(), lower()   *)
(* and the JSON string escaping act on characters as the code's calls do.  *)
(* Time is a tick counter; datetime.now() reads a value that never runs    *)
(* behind the last value read.                                             *)
(***************************************************************************)
EXTENDS Integers, Sequences, FiniteSets, TLC

(* ------------------------------ bounds --------------------------------- *)

\* The largest clock value datetime.now() returns.
MaxTime == 1
\* The number of lines input() returns in one run of the interactive loop.
MaxInputs == 2
\* The number of calls made on the agent before interactive_loop.
MaxApiCalls == 5
\* The longest message list of a session handed to to_dict and from_dict.
MaxMessages == 1

\* The number of sessions a client of SessionManager creates.
MaxHeld == 2

\* Clock ticks per second: strftime("%Y-%m-%d-%H-%M-%S") keeps whole seconds,
\* isoformat() keeps the fraction.
TicksPerSecond == 2

Times == 0..MaxTime

(* ------------------------------- text ---------------------------------- *)

UpperChars == <<"A","B","C","D","E","F","G","H","I","J","K","L","M",
                "N","O","P","Q","R","S","T","U","V","W","X","Y","Z">>
LowerChars == <<"a","b","c","d","e","f","g","h","i","j","k","l","m",
                "n","o","p","q","r","s","t","u","v","w","x","y","z">>

\* str.lower(), one character.
LowerChar(c) ==
    IF \E i \in 1..Len(UpperChars) : UpperChars[i] = c
    THEN LowerChars[CHOOSE i \in 1..Len(UpperChars) : UpperChars[i] = c]
    ELSE c

\* str.lower()
Lower(s) == [i \in 1..Len(s) |-> LowerChar(s[i])]

\* The characters str.strip() removes.
IsSpace(c) == c \in {" ", "\t", "\n", "\r"}

RECURSIVE LStrip(_)
LStrip(s) == IF s # <<>> /\ IsSpace(Head(s)) THEN LStrip(Tail(s)) ELSE s

RECURSIVE RStrip(_)
RStrip(s) ==
    IF s # <<>> /\ IsSpace(s[Len(s)]) THEN RStrip(SubSeq(s, 1, Len(s) - 1)) ELSE s

\* A strip() that removes nothing.
Strip_kept(s) == s

\* str.strip()
Strip(s) == RStrip(LStrip(s))

\* The exit keywords of the interactive loop.
ExitKeywords == { <<"e","x","i","t">>, <<"q","u","i","t">>, <<"b","y","e">> }

\* The test at agent.py:106 applied to the stripped input.
IsExitCommand(user_input) == Lower(user_input) \in ExitKeywords

Hello == <<"H","e","l","l","o">>
HiThere == <<"H","i"," ","t","h","e","r","e","!">>
\* A text with the characters the JSON encoder escapes.
Quoted == <<"\"", "\\", "n">>
\* A text with a line break beside them.
TwoLines == <<"\"", "\\", "n", "\n", "x">>

\* What input() may return (before strip()).
RawInputs ==
    { <<>>, <<" ", " ">>,
      <<"e","x","i","t">>, <<"E","X","I","T">>, <<" ","Q","u","i","t"," ">>,
      <<"b","y","e">>,
      Hello, <<" ">> \o Quoted }

\* What the completion may return as response.choices[0].message.content:
\* a text, or None.
Completions ==
    { [is_none |-> FALSE, content |-> HiThere],
      [is_none |-> TRUE,  content |-> <<>>] }

\* The messages added through agent.add_message before the loop.
ApiMessages ==
    { [role |-> "user", content |-> Hello],
      [role |-> "tool", content |-> TwoLines] }

Roles == {"user", "assistant", "tool"}

(* ---------------------------- Session ---------------------------------- *)

\* datetime.isoformat(): the fraction is left out when it is zero.
IsoFormat(t) ==
    LET sec == t \div TicksPerSecond
        frac == t % TicksPerSecond
    IN  IF frac = 0 THEN <<sec>> ELSE <<sec, frac>>

\* Session.__init__ at clock value t.
SessionInit(session_id, t) ==
    [session_id |-> session_id,
     messages   |-> <<>>,
     created_at |-> IsoFormat(t),
     updated_at |-> IsoFormat(t)]

\* An add_message that takes its two arguments in the other order.
SessionAddMessage_swapped(s, role, content, t1, t2) ==
    [s EXCEPT !.messages = Append(@, [role |-> content, content |-> role,
                                      timestamp |-> IsoFormat(t1)]),
              !.updated_at = IsoFormat(t2)]

\* An add_message that puts the message at the front of the list.
SessionAddMessage_front(s, role, content, t1, t2) ==
    [s EXCEPT !.messages = <<[role |-> role, content |-> content,
                              timestamp |-> IsoFormat(t1)]>> \o @,
              !.updated_at = IsoFormat(t2)]

\* Session.add_message: the timestamp and updated_at come from two clock reads.
SessionAddMessage(s, role, content, t1, t2) ==
    [s EXCEPT !.messages = Append(@, [role |-> role, content |-> content,
                                      timestamp |-> IsoFormat(t1)]),
              !.updated_at = IsoFormat(t2)]

\* Session.to_dict
to_dict(s) ==
    [session_id |-> s.session_id,
     messages   |-> s.messages,
     created_at |-> s.created_at,
     updated_at |-> s.updated_at]

\* dict.get(key, default)
DictGet(d, k, default) == IF k \in DOMAIN d THEN d[k] ELSE default

\* from_dict with the stored timestamps ignored: the constructor's are kept.
from_dict_fresh_stamps(data, t) ==
    [SessionInit(data["session_id"], t) EXCEPT
        !.messages = DictGet(data, "messages", <<>>)]

\* A from_dict whose updated_at falls back on the created_at it took.
from_dict_updated_from_created(data, t) ==
    LET session == SessionInit(data["session_id"], t)
        created == DictGet(data, "created_at", session.created_at)
    IN  [session EXCEPT
            !.messages   = DictGet(data, "messages", <<>>),
            !.created_at = created,
            !.updated_at = DictGet(data, "updated_at", created)]

\* Session.from_dict at clock value t (the constructor reads the clock).
from_dict(data, t) ==
    LET session == SessionInit(data["session_id"], t)
    IN  [session EXCEPT
            !.messages   = DictGet(data, "messages", <<>>),
            !.created_at = DictGet(data, "created_at", session.created_at),
            !.updated_at = DictGet(data, "updated_at", session.updated_at)]

(* ------------------------------ JSON ----------------------------------- *)

\* The JSON encoder's string escaping (ensure_ascii=False): quote, backslash
\* and the line break are escaped, every other character is kept.
RECURSIVE JsonEscape(_)
JsonEscape(s) ==
    IF s = <<>> THEN <<>>
    ELSE LET c == Head(s)
             e == IF c = "\"" THEN <<"\\", "\"">>
                  ELSE IF c = "\\" THEN <<"\\", "\\">>
                  ELSE IF c = "\n" THEN <<"\\", "n">>
                  ELSE <<c>>
         IN  e \o JsonEscape(Tail(s))

\* A decoder that leaves the escapes in place.
JsonUnescape_kept(s) == s

\* The JSON decoder's reading of an escaped string.
RECURSIVE JsonUnescape(_)
JsonUnescape(s) ==
    IF s = <<>> THEN <<>>
    ELSE IF Head(s) = "\\" /\ Len(s) >= 2
         THEN <<(IF s[2] = "n" THEN "\n" ELSE s[2])>> \o JsonUnescape(Tail(Tail(s)))
         ELSE <<Head(s)>> \o JsonUnescape(Tail(s))

\* One message as a JSON object: its members in insertion order.
DumpMessage(m) ==
    << <<"role", m.role>>,
       <<"content", JsonEscape(m.content)>>,
       <<"timestamp", m.timestamp>> >>

\* json.dump(session.to_dict(), f): the members in insertion order.
JsonDump(d) ==
    << <<"session_id", d.session_id>>,
       <<"messages", [i \in 1..Len(d.messages) |-> DumpMessage(d.messages[i])]>>,
       <<"created_at", d.created_at>>,
       <<"updated_at", d.updated_at>> >>

\* A JSON object's members as a dict: a repeated key keeps its last value.
MembersOf(pairs) ==
    [k \in {pairs[i][1] : i \in 1..Len(pairs)} |->
        LET last == CHOOSE i \in 1..Len(pairs) :
                        /\ pairs[i][1] = k
                        /\ \A j \in (i + 1)..Len(pairs) : pairs[j][1] # k
        IN  pairs[last][2]]

\* One message object decoded: its string content is unescaped.
LoadMessage(pairs) ==
    LET o == MembersOf(pairs)
    IN  [k \in DOMAIN o |-> IF k = "content" THEN JsonUnescape(o[k]) ELSE o[k]]

\* json.load(f) of a complete document.
JsonLoad(text) ==
    LET o == MembersOf(text)
    IN  [k \in DOMAIN o |->
            IF k = "messages"
            THEN [i \in 1..Len(o[k]) |-> LoadMessage(o[k][i])]
            ELSE o[k]]

(* -------------------------- SessionManager ------------------------------ *)

\* Path.home() / ".agent" / "sessions"
HomeSessionsDir == <<"~", ".agent", "sessions">>

\* SessionManager.__init__: the directory is the one under the home directory.
SessionManagerInit == [sessions_dir |-> HomeSessionsDir]

\* An id that keeps the fraction of the second.
GenerateSessionId_ticks(t) == t

\* SessionManager._generate_session_id at clock value t: whole seconds.
GenerateSessionId(t) == t \div TicksPerSecond

\* The ids _generate_session_id can give.
SessionIds == {GenerateSessionId(t) : t \in Times}

\* SessionManager._get_session_path
SessionPath(mgr, session_id) == mgr.sessions_dir \o <<session_id, ".json">>

\* SessionManager.create_session: the id and the constructor each read the clock.
create_session(t1, t2) == SessionInit(GenerateSessionId(t1), t2)

\* A file whose write ended: the whole document.
WholeFile(s) == [form |-> "object", complete |-> TRUE, text |-> JsonDump(to_dict(s))]

\* A file opened with mode "w" whose write did not end: cut short.
CutFile == [form |-> "object", complete |-> FALSE, text |-> <<>>]

\* The files after save_session wrote the session: the file of its id is replaced.
save_session(fs, mgr, s) ==
    (SessionPath(mgr, s.session_id) :> WholeFile(s)) @@ fs

\* The files after a save_session that did not end (an OSError, an interrupt):
\* untouched when open() failed, cut short when the write failed, whole when
\* the interrupt came after the write.
BrokenSave(fs, mgr, s, how) ==
    IF how = "untouched" THEN fs
    ELSE IF how = "cut" THEN (SessionPath(mgr, s.session_id) :> CutFile) @@ fs
    ELSE save_session(fs, mgr, s)

\* A session id that makes a file name longer than the file system takes.
LongId == -1

\* stat() fails with ENAMETOOLONG on the path of the id.
NameTooLong(session_id) == session_id = LongId

\* SessionManager.session_exists, that is Path.exists(): whether the file is
\* there.  When stat() fails with an OSError other than "no such file", as
\* for a name too long, Path.exists() raises it before Python 3.12
\* (reraises) and answers False from 3.12 on.
session_exists(fs, mgr, session_id, reraises) ==
    IF NameTooLong(session_id)
    THEN [raised |-> IF reraises THEN "OSError" ELSE "none", value |-> FALSE]
    ELSE [raised |-> "none", value |-> SessionPath(mgr, session_id) \in DOMAIN fs]

\* The suffix of a session file.
JsonSuffix == <<".", "j", "s", "o", "n">>

\* The characters of file names, in code point order ('.' < digits < letters).
CodePoints == <<".", "0", "1", "2", "3", "4", "5", "6", "7", "8", "9",
                "j", "n", "o", "s", "t", "x">>

CharCode(c) == CHOOSE i \in 1..Len(CodePoints) : CodePoints[i] = c

\* A session id as the text strftime gives: digits of fixed width, so that
\* the order of the texts is the order of the seconds.
IdText(session_id) == <<CodePoints[session_id + 2]>>

\* The name of the file at a session path.
FileName(path) == IdText(path[Len(path) - 1]) \o JsonSuffix

\* The names in the sessions directory: the session files and the others.
DirNames(fs, oth) == {FileName(p) : p \in DOMAIN fs} \cup oth

\* glob("*.json"): the name ends in ".json" ('*' also matches nothing).
GlobJson(name) ==
    /\ Len(name) >= Len(JsonSuffix)
    /\ SubSeq(name, Len(name) - Len(JsonSuffix) + 1, Len(name)) = JsonSuffix

\* Path.stem: the name up to its last dot, unless that dot is the first or the
\* last character of the name (then the name has no suffix and is its own stem).
Stem(name) ==
    LET dots == {i \in 1..Len(name) : name[i] = "."}
    IN  IF dots = {} THEN name
        ELSE LET last == CHOOSE i \in dots : \A j \in dots : j <= i
             IN  IF 1 < last /\ last < Len(name)
                 THEN SubSeq(name, 1, last - 1)
                 ELSE name

\* a < b for str: by code points, a proper prefix first.
RECURSIVE Less(_, _)
Less(a, b) ==
    IF b = <<>> THEN FALSE
    ELSE IF a = <<>> THEN TRUE
    ELSE IF CharCode(Head(a)) # CharCode(Head(b))
         THEN CharCode(Head(a)) < CharCode(Head(b))
         ELSE Less(Tail(a), Tail(b))

\* sorted(ids, reverse=True) of the stems of the given names.
RECURSIVE SortedStems(_)
SortedStems(names) ==
    IF names = {} THEN <<>>
    ELSE LET n == CHOOSE x \in names : \A y \in names : ~Less(Stem(x), Stem(y))
         IN  <<Stem(n)>> \o SortedStems(names \ {n})

\* SessionManager.list_sessions
list_sessions(fs, oth) == SortedStems({n \in DirNames(fs, oth) : GlobJson(n)})

\* A load_session without the exists() test at session.py:183: open() raises
\* FileNotFoundError, an OSError, which the except clause wraps.
load_session_unchecked(fs, mgr, session_id, t) ==
    LET path == SessionPath(mgr, session_id)
    IN  IF path \notin DOMAIN fs
        THEN [ok |-> FALSE, error |-> "SessionError", message |-> "Failed to load session"]
        ELSE IF fs[path].form = "not_utf8"
        THEN [ok |-> FALSE, error |-> "UnicodeDecodeError", message |-> "codec can't decode"]
        ELSE IF ~fs[path].complete
        THEN [ok |-> FALSE, error |-> "SessionError", message |-> "Failed to load session"]
        ELSE IF fs[path].form = "array"
        THEN [ok |-> FALSE, error |-> "TypeError", message |-> "list indices must be integers"]
        ELSE IF "session_id" \notin DOMAIN JsonLoad(fs[path].text)
        THEN [ok |-> FALSE, error |-> "KeyError", message |-> "session_id"]
        ELSE [ok |-> TRUE, session |-> from_dict(JsonLoad(fs[path].text), t)]

\* SessionManager.load_session at clock value t.  A missing file raises
\* SessionError "Session not found".  Of what the try block raises, only
\* OSError and JSONDecodeError are wrapped in SessionError "Failed to load
\* session": the UnicodeDecodeError of a file that is not UTF-8, the TypeError
\* of data["session_id"] on a document that is not an object and the KeyError
\* of an object without "session_id" leave load_session as they are.
load_session(fs, mgr, session_id, t) ==
    LET path == SessionPath(mgr, session_id)
    IN  IF path \notin DOMAIN fs
        THEN [ok |-> FALSE, error |-> "SessionError", message |-> "Session not found"]
        ELSE IF fs[path].form = "not_utf8"
        THEN [ok |-> FALSE, error |-> "UnicodeDecodeError", message |-> "codec can't decode"]
        ELSE IF ~fs[path].complete
        THEN [ok |-> FALSE, error |-> "SessionError", message |-> "Failed to load session"]
        ELSE IF fs[path].form = "array"
        THEN [ok |-> FALSE, error |-> "TypeError", message |-> "list indices must be integers"]
        ELSE IF "session_id" \notin DOMAIN JsonLoad(fs[path].text)
        THEN [ok |-> FALSE, error |-> "KeyError", message |-> "session_id"]
        ELSE [ok |-> TRUE, session |-> from_dict(JsonLoad(fs[path].text), t)]

(* ------------------------------- Agent ---------------------------------- *)

\* add_message putting the entry at the front of the transcript.
add_message_history_front(history, role, content) ==
    <<[role |-> role, content |-> content]>> \o history

\* Agent.add_message, the transcript: one {role, content} entry at the end.
add_message_history(history, role, content) ==
    Append(history, [role |-> role, content |-> content])

\* add_message without the mirroring into the session.
add_message_session_unmirrored(cs, role, content, t1, t2) == cs

\* Agent.add_message, the session: mirrored when a session is set.  The
\* optional current_session is <<>> for None and <<session>> otherwise.
add_message_session(cs, role, content, t1, t2) ==
    IF cs # <<>> THEN <<SessionAddMessage(cs[1], role, content, t1, t2)>> ELSE cs

\* Agent.add_message as a whole.  Both appends act on list objects: when the
\* transcript is the session's own message list, the entry and the message
\* land in that one list.
add_message(history, cs, alias, role, content, t1, t2) ==
    LET h == add_message_history(history, role, content)
        shared == alias /\ cs # <<>>
        s == add_message_session(
                 IF shared THEN <<[cs[1] EXCEPT !.messages = h]>> ELSE cs,
                 role, content, t1, t2)
    IN  [conversation_history |-> IF shared THEN s[1].messages ELSE h,
         current_session |-> s]

\* A start_new_session that puts the entries of the transcript into the new
\* session.
start_new_session_backfilled(history, t1, t2) ==
    [current_session |->
         <<[create_session(t1, t2) EXCEPT
               !.messages = [i \in 1..Len(history) |->
                                [role |-> history[i].role,
                                 content |-> history[i].content,
                                 timestamp |-> IsoFormat(t2)]]]>>,
     conversation_history |-> history]

\* A start_new_session that empties the transcript.
start_new_session_cleared(history, t1, t2) ==
    [current_session |-> <<create_session(t1, t2)>>,
     conversation_history |-> <<>>]

\* Agent.start_new_session: the session is the one create_session returns;
\* the transcript is not assigned.
start_new_session(history, t1, t2) ==
    [current_session |-> <<create_session(t1, t2)>>,
     conversation_history |-> history]

\* A resume_from_session without the copy: the transcript is the session's list.
resume_from_session_uncopied(session) ==
    [current_session |-> <<session>>,
     conversation_history |-> session.messages,
     aliased |-> TRUE]

\* Agent.resume_from_session: the transcript is session.messages.copy(), a new
\* list of the same message dicts, timestamps included.
resume_from_session(session) ==
    [current_session |-> <<session>>,
     conversation_history |-> session.messages,
     aliased |-> FALSE]

\* chat_completion's result: the content, or "" when the content is None.
CompletionText(c) == IF c.is_none THEN <<>> ELSE c.content

\* What litellm.completion may do: return a response whose content is a text
\* or None, raise one of its API errors, raise the IndexError of an empty
\* choices list or the KeyError of a config without "model" (both inside the
\* try block), or be interrupted from the keyboard.
CompletionFailures ==
    {"APIConnectionError", "AuthenticationError", "NotFoundError", "Timeout",
     "IndexError", "KeyError"}

\* The classes among them that derive from Exception; KeyboardInterrupt
\* derives from BaseException only.
ExceptionClasses == CompletionFailures

CompletionOutcomes ==
    {[kind |-> "returns", is_none |-> c.is_none, content |-> c.content,
      exception |-> "none"] : c \in Completions}
    \cup {[kind |-> "raises", is_none |-> FALSE, content |-> <<>>, exception |-> e] :
             e \in CompletionFailures \cup {"KeyboardInterrupt"}}

\* A save_current_session that keeps the error of the save to itself.
save_current_session_quiet(fs, mgr, cs, how) ==
    IF cs = <<>> THEN [files |-> fs, raised |-> "none"]
    ELSE [files |-> BrokenSave(fs, mgr, cs[1], how), raised |-> "none"]

\* Agent.save_current_session: nothing without a session; else one
\* save_session call on it, whose write ends as `how` and whose SessionError
\* is not caught.
save_current_session(fs, mgr, cs, how) ==
    IF cs = <<>> THEN [files |-> fs, raised |-> "none"]
    ELSE [files |-> BrokenSave(fs, mgr, cs[1], how),
          raised |-> IF how = "whole" THEN "none" ELSE "SessionError"]

\* A chat_completion without the try statement: what the call raises leaves it.
chat_completion_unwrapped(outcome) ==
    IF outcome.kind = "returns"
    THEN [ok |-> TRUE, value |-> CompletionText(outcome)]
    ELSE [ok |-> FALSE, error |-> outcome.exception, cause |-> outcome.exception]

\* Agent.chat_completion: the content, "" for None; "except Exception" turns
\* what the try block raised into ModelError, and lets a KeyboardInterrupt pass.
chat_completion(outcome) ==
    IF outcome.kind = "returns"
    THEN [ok |-> TRUE, value |-> CompletionText(outcome)]
    ELSE IF outcome.exception \in ExceptionClasses
    THEN [ok |-> FALSE, error |-> "ModelError", cause |-> outcome.exception]
    ELSE [ok |-> FALSE, error |-> outcome.exception, cause |-> outcome.exception]

\* Agent.process_single_prompt: chat_completion on a list of the one user
\* message; conversation_history is neither read nor assigned.
process_single_prompt(history, prompt, outcome) ==
    [messages |-> <<[role |-> "user", content |-> prompt]>>,
     result |-> chat_completion(outcome),
     conversation_history |-> history]

(* ---------------------------- configuration ----------------------------- *)

\* A directory other than the default one.
OtherSessionsDir == <<"~", "srv", "sessions">>

\* get_default_config()["timeout"]
DefaultTimeout == 30

\* get_default_config()["max_tokens"]
DefaultMaxTokens == 4000

\* The values of timeout, max_tokens and temperature carry their Python type:
\* an int, a bool, a str, None, or a float.  A float is the fraction num/den,
\* or nan, or an infinity of the sign of num.
IntValue(n) == [type |-> "int", num |-> n, den |-> 1]
BoolValue(b) == [type |-> "bool", num |-> IF b THEN 1 ELSE 0, den |-> 1]
StrValue == [type |-> "str", num |-> 0, den |-> 1]
NoneValue == [type |-> "None", num |-> 0, den |-> 1]
FloatValue(n, d) == [type |-> "float", num |-> n, den |-> d]
NanValue == [type |-> "nan", num |-> 0, den |-> 1]
InfValue(sign) == [type |-> "inf", num |-> sign, den |-> 1]

\* isinstance(x, int): a bool is an int.
IsInstanceInt(x) == x.type \in {"int", "bool"}

\* isinstance(x, int | float)
IsInstanceNumber(x) == x.type \in {"int", "bool", "float", "nan", "inf"}

\* x < n for a number x and an int n: false of nan.
NumberBelow(x, n) ==
    IF x.type = "nan" THEN FALSE
    ELSE IF x.type = "inf" THEN x.num < 0
    ELSE x.num < n * x.den

\* x > n for a number x and an int n: false of nan.
NumberAbove(x, n) ==
    IF x.type = "nan" THEN FALSE
    ELSE IF x.type = "inf" THEN x.num > 0
    ELSE x.num > n * x.den

DigitChars == <<"0","1","2","3","4","5","6","7","8","9">>

IsDigits(s) ==
    /\ s # <<>>
    /\ \A i \in 1..Len(s) : \E d \in 1..10 : DigitChars[d] = s[i]

RECURSIVE DecimalValue(_)
DecimalValue(s) ==
    IF s = <<>> THEN 0
    ELSE 10 * DecimalValue(SubSeq(s, 1, Len(s) - 1))
         + (CHOOSE d \in 0..9 : DigitChars[d + 1] = s[Len(s)])

RECURSIVE TenTo(_)
TenTo(k) == IF k = 0 THEN 1 ELSE 10 * TenTo(k - 1)

\* The text without its sign, and the sign.
Unsigned(s) == IF s # <<>> /\ s[1] \in {"-", "+"} THEN Tail(s) ELSE s
SignOf(s) == IF s # <<>> /\ s[1] = "-" THEN -1 ELSE 1

\* int(value) at config.py:101 for the texts of the model (a sign and decimal
\* digits, blanks around them): the number, or ValueError.
int(value) ==
    LET s == Strip(value)
    IN  IF IsDigits(Unsigned(s))
        THEN [ok |-> TRUE, value |-> IntValue(SignOf(s) * DecimalValue(Unsigned(s)))]
        ELSE [ok |-> FALSE, error |-> "ValueError"]

\* The index of the first "." of s, or 0.
PointAt(s) ==
    IF \E i \in 1..Len(s) : s[i] = "."
    THEN CHOOSE i \in 1..Len(s) : s[i] = "." /\ \A j \in 1..(i - 1) : s[j] # "."
    ELSE 0

\* float(value) at config.py:103 for the texts of the model (nan, inf, and a
\* sign, decimal digits and a point, without exponent): the number, or
\* ValueError.
float(value) ==
    LET s == Lower(Strip(value))
        u == Unsigned(s)
        p == PointAt(u)
        whole == IF p = 0 THEN u ELSE SubSeq(u, 1, p - 1)
        frac == IF p = 0 THEN <<>> ELSE SubSeq(u, p + 1, Len(u))
    IN  IF u = <<"n","a","n">> THEN [ok |-> TRUE, value |-> NanValue]
        ELSE IF u \in {<<"i","n","f">>, <<"i","n","f","i","n","i","t","y">>}
        THEN [ok |-> TRUE, value |-> InfValue(SignOf(s))]
        ELSE IF /\ whole \o frac # <<>>
                /\ whole = <<>> \/ IsDigits(whole)
                /\ frac = <<>> \/ IsDigits(frac)
        THEN [ok |-> TRUE,
              value |-> FloatValue(SignOf(s) * DecimalValue(whole \o frac),
                                   TenTo(Len(frac)))]
        ELSE [ok |-> FALSE, error |-> "ValueError"]

\* config.py:105: value.lower() in ("true", "1", "yes")
EnvFlag(value) ==
    Lower(value) \in {<<"t","r","u","e">>, <<"1">>, <<"y","e","s">>}

\* config.get_default_config, the keys of the model.
get_default_config ==
    [timeout |-> IntValue(DefaultTimeout),
     max_tokens |-> IntValue(DefaultMaxTokens),
     temperature |-> FloatValue(7, 10),
     tools_enabled |-> TRUE,
     confirmation_required |-> FALSE,
     session_dir |-> HomeSessionsDir]

\* config.load_config_file: {} when the file is missing or empty, what
\* yaml.safe_load returned when it parses (a mapping, a list or a scalar), and
\* ConfigurationError when it does not or the file cannot be read.
load_config_file(file) ==
    IF file = <<>> THEN [ok |-> TRUE, form |-> "mapping", data |-> <<>>]
    ELSE IF file[1].form \in {"invalid", "unreadable"}
    THEN [ok |-> FALSE, form |-> file[1].form, data |-> <<>>]
    ELSE IF file[1].form = "empty" THEN [ok |-> TRUE, form |-> "mapping", data |-> <<>>]
    ELSE [ok |-> TRUE, form |-> file[1].form, data |-> file[1].data]

\* config.py:150, config.update(file_config): the keys of a mapping replace
\* the defaults; a list of scalars or a number raises TypeError, a text
\* ValueError.
UpdateFrom(config, loaded) ==
    IF loaded.form = "mapping" THEN [ok |-> TRUE, config |-> loaded.data @@ config]
    ELSE IF loaded.form = "text" THEN [ok |-> FALSE, error |-> "ValueError"]
    ELSE [ok |-> FALSE, error |-> "TypeError"]

\* The keys apply_env_overrides converts, in the order of env_mappings.
ConvertedKeys == <<"TIMEOUT", "MAX_TOKENS", "TEMPERATURE">>

\* config.py:100-103: the conversion of one variable.
Converted(name, value) == IF name = "TEMPERATURE" THEN float(value) ELSE int(value)

\* config.apply_env_overrides: every variable that is set replaces its key;
\* the first conversion that fails raises out of the function.
apply_env_overrides(config, env) ==
    LET set == {i \in 1..Len(ConvertedKeys) : ConvertedKeys[i] \in DOMAIN env}
        bad == {i \in set : ~Converted(ConvertedKeys[i], env[ConvertedKeys[i]]).ok}
        Number(key, name) ==
            IF name \in DOMAIN env THEN Converted(name, env[name]).value ELSE config[key]
        Flag(key, name) ==
            IF name \in DOMAIN env THEN EnvFlag(env[name]) ELSE config[key]
    IN  IF bad # {}
        THEN [ok |-> FALSE, error |-> "ValueError"]
        ELSE [ok |-> TRUE,
              config |->
                  [timeout |-> Number("timeout", "TIMEOUT"),
                   max_tokens |-> Number("max_tokens", "MAX_TOKENS"),
                   temperature |-> Number("temperature", "TEMPERATURE"),
                   tools_enabled |-> Flag("tools_enabled", "TOOLS_ENABLED"),
                   confirmation_required |->
                       Flag("confirmation_required", "CONFIRMATION_REQUIRED"),
                   session_dir |-> IF "SESSION_DIR" \in DOMAIN env
                                   THEN env["SESSION_DIR"]
                                   ELSE config.session_dir]]

\* config.validate_config: true when no ConfigurationError is raised.
validate_config(config) ==
    /\ IsInstanceInt(config.timeout) /\ ~(config.timeout.num <= 0)
    /\ IsInstanceInt(config.max_tokens) /\ ~(config.max_tokens.num <= 0)
    /\ IsInstanceNumber(config.temperature)
    /\ ~NumberBelow(config.temperature, 0)
    /\ ~NumberAbove(config.temperature, 2)

\* config.load_configuration: the defaults, updated from the file, then from
\* the environment, then validated.  An exception of a step that is not
\* caught there leaves the function.
load_configuration(file, env) ==
    LET loaded == load_config_file(file)
        updated == UpdateFrom(get_default_config, loaded)
        final == apply_env_overrides(updated.config, env)
    IN  IF ~loaded.ok THEN [ok |-> FALSE, error |-> "ConfigurationError"]
        ELSE IF ~updated.ok THEN [ok |-> FALSE, error |-> updated.error]
        ELSE IF ~final.ok THEN [ok |-> FALSE, error |-> final.error]
        ELSE IF ~validate_config(final.config)
        THEN [ok |-> FALSE, error |-> "ConfigurationError"]
        ELSE [ok |-> TRUE, config |-> final.config]

\* The configuration files main may find: none, an empty mapping, one that
\* sets session_dir, one with a timeout that does not validate, one that
\* disables the tool and asks for confirmation, and one that is not YAML.
ConfigFiles ==
    { <<>>,
      <<[form |-> "mapping", data |-> <<>>]>>,
      <<[form |-> "mapping", data |-> [session_dir |-> OtherSessionsDir]]>>,
      <<[form |-> "mapping", data |-> [timeout |-> IntValue(0)]]>>,
      <<[form |-> "mapping",
         data |-> [tools_enabled |-> FALSE, confirmation_required |-> TRUE]]>>,
      <<[form |-> "invalid", data |-> <<>>]>> }

\* The environments: with and without SESSION_DIR.
Environments == { <<>>, [SESSION_DIR |-> OtherSessionsDir] }

\* Neither a configuration file nor an override.
PlainEnviron == [file |-> <<>>, env |-> <<>>]

\* The configuration files load_configuration is checked on: those above, an
\* empty file, one that cannot be read, documents that are a list, a text or
\* a number, and mappings that set timeout, max_tokens or temperature to a
\* value of any type.
ConfigFileInputs ==
    ConfigFiles
    \cup { <<[form |-> f, data |-> <<>>]>> : f \in {"empty", "unreadable", "list", "text", "number"} }
    \cup { <<[form |-> "mapping", data |-> [timeout |-> v]]>> :
               v \in {IntValue(120), IntValue(-1), BoolValue(TRUE), StrValue, NoneValue,
                      FloatValue(15, 10)} }
    \cup { <<[form |-> "mapping", data |-> [max_tokens |-> v]]>> :
               v \in {IntValue(1), IntValue(0), StrValue} }
    \cup { <<[form |-> "mapping", data |-> [temperature |-> v]]>> :
               v \in {IntValue(0), IntValue(2), FloatValue(21, 10), FloatValue(-1, 10),
                      NanValue, StrValue} }

\* The texts the environment may hold for a number.
NumberTexts ==
    { <<"6","0">>, <<" ","6","0"," ">>, <<"0">>, <<"-","1">>, <<"a","b","c">>, <<>>,
      <<"0",".","9">>, <<"2",".","0","5">>, <<"n","a","n">>, <<"I","n","f">> }

\* The environments load_configuration is checked on: one of TIMEOUT,
\* MAX_TOKENS and TEMPERATURE is set, or none.
EnvironInputs ==
    {<<>>}
    \cup {[TIMEOUT |-> v] : v \in NumberTexts}
    \cup {[MAX_TOKENS |-> v] : v \in NumberTexts}
    \cup {[TEMPERATURE |-> v] : v \in NumberTexts}
    \cup {[TIMEOUT |-> <<"a","b","c">>, TEMPERATURE |-> <<"x">>]}

\* No option given.
NoArgs ==
    [prompt |-> <<>>, input_file |-> <<>>, session_id |-> <<>>,
     allow_tools |-> <<>>, confirm |-> <<>>]

\* A mode test that counts the options whose value is true.
active_modes_truthy(a) ==
    {k \in {"prompt", "input_file", "session_id"} :
        a[k] # <<>> /\ (k = "prompt" => a[k][1] # <<>>)}

\* cli.py:83-84: the options that are not None.
active_modes(a) == {k \in {"prompt", "input_file", "session_id"} : a[k] # <<>>}

\* cli.py:103: "if prompt" is true of a prompt that is not None and not "".
PromptMode(a) == a.prompt # <<>> /\ a.prompt[1] # <<>>

\* cli.py:109: reached when the prompt is not true; a Path is always true.
FileMode(a) == ~PromptMode(a) /\ a.input_file # <<>>

\* cli.py:120: reached when neither holds; the session ids of the model are
\* not empty.
ResumeMode(a) == ~PromptMode(a) /\ ~FileMode(a) /\ a.session_id # <<>>

\* cli.py:73-76: --allow-tools/--no-tools and --confirm/--no-confirm replace
\* the configured values when they are given.
FlagOverrides(config, a) ==
    [config EXCEPT
        !.tools_enabled = IF a.allow_tools # <<>> THEN a.allow_tools[1] ELSE @,
        !.confirmation_required = IF a.confirm # <<>> THEN a.confirm[1] ELSE @]

\* The tool flags main may be given: none, --no-tools --confirm, and
\* --allow-tools --no-confirm.
FlagInputs ==
    { [allow_tools |-> <<>>, confirm |-> <<>>],
      [allow_tools |-> <<FALSE>>, confirm |-> <<TRUE>>],
      [allow_tools |-> <<TRUE>>, confirm |-> <<FALSE>>] }

\* What main may be given: no prompt, "" or a text; no file, or an existing
\* file that can or cannot be read; no session id, or one; and the tool flags.
ArgvInputs ==
    {[prompt |-> p, input_file |-> f, session_id |-> i,
      allow_tools |-> g.allow_tools, confirm |-> g.confirm] :
        p \in {<<>>, << <<>> >>, <<Hello>>},
        f \in {<<>>} \cup {<<[readable |-> b, content |-> HiThere]>> : b \in BOOLEAN},
        i \in {<<>>} \cup {<<j>> : j \in SessionIds \cup {GenerateSessionId(MaxTime) + 1}},
        g \in FlagInputs}

(* ------------------------------ BashTool -------------------------------- *)

\* The number of commands handed to subprocess.run in one run.
MaxCommands == 2

\* BashTool.__init__
BashToolInit(confirmation_required, timeout) ==
    [confirmation_required |-> confirmation_required, timeout |-> timeout,
     enabled |-> TRUE]

\* BashTool.set_enabled
set_enabled(tool, enabled) == [tool EXCEPT !.enabled = enabled]

\* agent.py:36-41: the tool Agent.__init__ makes from its configuration.
AgentBashTool(config) ==
    set_enabled(BashToolInit(config.confirmation_required, config.timeout.num),
                config.tools_enabled)

\* A confirmation that takes the empty answer for a yes.
ConfirmExecution_default_yes(answer) ==
    Lower(Strip(answer)) \in {<<>>, <<"y">>, <<"y","e","s">>}

\* BashTool._confirm_execution for what input() returned.
ConfirmExecution(answer) == Lower(Strip(answer)) \in {<<"y">>, <<"y","e","s">>}

\* bash_tool.py:87-92
CancelledResult ==
    [success |-> FALSE, output |-> "",
     error |-> "Command execution cancelled by user", exit_code |-> 1]

\* What input() does at the confirmation prompt.
Answers ==
    {[kind |-> "returns", text |-> t, exception |-> "none"] :
        t \in {<<"y">>, <<" ","Y","E","S"," ">>, <<"n">>, <<>>, <<"y","e","p">>}}
    \cup {[kind |-> "raises", text |-> <<>>, exception |-> e] :
              e \in {"EOFError", "KeyboardInterrupt"}}

\* What subprocess.run does: the command completes with a return code and
\* its streams, or the call raises.
Runs ==
    {[kind |-> "completed", returncode |-> rc, stdout |-> o.out, stderr |-> o.err,
      exception |-> "none"] :
        rc \in {0, 1, 124, -9},
        o \in {[out |-> "out", err |-> ""], [out |-> "", err |-> "err"]}}
    \cup {[kind |-> "raises", returncode |-> 0, stdout |-> "", stderr |-> "",
           exception |-> e] :
              e \in {"TimeoutExpired", "OSError", "UnicodeDecodeError",
                     "KeyboardInterrupt"}}

\* An execute_command without the timeout branch, whose failures report
\* success.
execute_command_timeout_ok(tool, answer, run) ==
    IF ~tool.enabled
    THEN [raised |-> "BashToolError", result |-> <<>>, prompted |-> FALSE, ran |-> FALSE]
    ELSE IF tool.confirmation_required /\ answer.kind = "raises"
    THEN [raised |-> answer.exception, result |-> <<>>, prompted |-> TRUE, ran |-> FALSE]
    ELSE IF tool.confirmation_required /\ ~ConfirmExecution(answer.text)
    THEN [raised |-> "none", result |-> <<CancelledResult>>, prompted |-> TRUE,
          ran |-> FALSE]
    ELSE IF run.kind = "completed"
    THEN [raised |-> "none",
          result |-> <<[success |-> run.returncode = 0, output |-> run.stdout,
                        error |-> run.stderr, exit_code |-> run.returncode]>>,
          prompted |-> tool.confirmation_required, ran |-> TRUE]
    ELSE IF run.exception = "KeyboardInterrupt"
    THEN [raised |-> "KeyboardInterrupt", result |-> <<>>,
          prompted |-> tool.confirmation_required, ran |-> TRUE]
    ELSE [raised |-> "none",
          result |-> <<[success |-> TRUE, output |-> "", error |-> "Execution error",
                        exit_code |-> 1]>>,
          prompted |-> tool.confirmation_required, ran |-> TRUE]

\* BashTool.execute_command: what leaves the call (an exception, or the
\* result dict), whether the confirmation prompt was shown, and whether
\* subprocess.run was called.  The error texts stand without the number of
\* seconds and the text of the exception.
execute_command(tool, answer, run) ==
    IF ~tool.enabled
    THEN [raised |-> "BashToolError", result |-> <<>>, prompted |-> FALSE, ran |-> FALSE]
    ELSE IF tool.confirmation_required /\ answer.kind = "raises"
    THEN [raised |-> answer.exception, result |-> <<>>, prompted |-> TRUE, ran |-> FALSE]
    ELSE IF tool.confirmation_required /\ ~ConfirmExecution(answer.text)
    THEN [raised |-> "none", result |-> <<CancelledResult>>, prompted |-> TRUE,
          ran |-> FALSE]
    ELSE IF run.kind = "completed"
    THEN [raised |-> "none",
          result |-> <<[success |-> run.returncode = 0, output |-> run.stdout,
                        error |-> run.stderr, exit_code |-> run.returncode]>>,
          prompted |-> tool.confirmation_required, ran |-> TRUE]
    ELSE IF run.exception = "TimeoutExpired"
    THEN [raised |-> "none",
          result |-> <<[success |-> FALSE, output |-> "", error |-> "Command timed out",
                        exit_code |-> 124]>>,
          prompted |-> tool.confirmation_required, ran |-> TRUE]
    ELSE IF run.exception = "KeyboardInterrupt"
    THEN [raised |-> "KeyboardInterrupt", result |-> <<>>,
          prompted |-> tool.confirmation_required, ran |-> TRUE]
    ELSE [raised |-> "none",
          result |-> <<[success |-> FALSE, output |-> "", error |-> "Execution error",
                        exit_code |-> 1]>>,
          prompted |-> tool.confirmation_required, ran |-> TRUE]

\* A reply without content is a tool call, and its command is run.
ReplyCommands_obeyed(outcome) == IF outcome.is_none THEN <<"command">> ELSE <<>>

\* agent.py:76-77: the commands chat_completion hands to
\* bash_tool.execute_command for a reply: it reads message.content and
\* nothing else.
ReplyCommands(outcome) == <<>>

(* ------------------------------- state ---------------------------------- *)

VARIABLES
    clock,                \* the last value datetime.now() returned
    files,                \* the filesystem: path -> [complete, text]
    saved,                \* history: id -> the session last written whole to its file
    session_manager,      \* Agent.session_manager
    conversation_history, \* Agent.conversation_history
    current_session,      \* Agent.current_session: <<>> or <<session>>
    addCalls,             \* history: the number of add_message calls
    apiCalls,             \* history: the calls made before interactive_loop
    pc,                   \* where the agent is
    line,                 \* what input() returned last
    user_input,           \* interactive_loop's user_input
    response,             \* interactive_loop's response: <<>> or <<text>>
    reported,             \* the last line printed
    caught,               \* the exception the loop's try statement caught in the last step, or "none"
    escaped,              \* the exception that left the last call, or "none"
    interrupted,          \* history: the loop caught a KeyboardInterrupt
    reads,                \* history: the lines input() returned
    saveCalls,            \* history: save_current_session calls of the loop
    closingSaves,         \* history: those made at agent.py:107 and :130
    completionCalls,      \* history: chat_completion calls of the loop
    entryLen,             \* history: len(conversation_history) when the loop began
    entrySessionLen,      \* history: len(current_session.messages) when the loop began
    rtSession,            \* a session handed to to_dict: <<>> or <<session>>
    rtData,               \* the dict to_dict returned: <<>> or <<dict>>
    rtResult,             \* the session from_dict returned: <<>> or <<session>>
    aliased,              \* conversation_history is the list object current_session.messages
    lastCall,             \* history: the Agent method called last
    activeBy,             \* history: what set current_session
    activeLen,            \* history: len(conversation_history) when current_session was set
    activeSessionLen,     \* history: len(current_session.messages) when it was set
    others,               \* the names of the other files in the sessions directory
    held,                 \* the sessions a client of SessionManager created: [session, tick]
    saveLog,              \* history: the save_session calls of that client, by session id
    loadResult,           \* the last load_session call of that client: <<>> or <<[id, existed, result]>>
    listResult,           \* what its last list_sessions call returned: <<>> or <<ids>>
    argv,                 \* main's options prompt, input_file, session_id: <<>> for None, else <<value>>
    environ,              \* the configuration file and the environment main runs in
    agent_config,         \* main's agent_config: <<>> or <<config>>
    constructed,          \* history: the number of Agent(...) constructions
    promptCalls,          \* history: the prompts process_single_prompt was called with
    lastRequest,          \* the message list of the last chat_completion call: <<>> or <<messages>>
    callResult,           \* what the last call returned: <<>> or <<value>>
    exitCode,             \* what main returned: <<>> or <<code>>
    loads,                \* history: the load_session calls main made
    bash_tool,            \* Agent.bash_tool, or a BashTool of its own: <<>> or <<tool>>
    executed              \* history: the number of commands handed to subprocess.run

storeVars == <<files, saved>>
agentVars == <<session_manager, conversation_history, current_session, addCalls,
               apiCalls>>
loopVars  == <<pc, line, user_input, response, reported, caught, escaped, interrupted, reads,
               saveCalls, closingSaves, completionCalls, entryLen, entrySessionLen>>
rtVars    == <<rtSession, rtData, rtResult>>
sessVars  == <<aliased, lastCall, activeBy, activeLen, activeSessionLen>>
clientVars == <<others, held, saveLog, loadResult, listResult>>
cliVars   == <<argv, environ, agent_config, constructed, promptCalls, lastRequest, callResult,
               exitCode, loads>>
toolVars  == <<bash_tool, executed>>
vars == <<clock, storeVars, agentVars, loopVars, rtVars, sessVars, clientVars, cliVars,
          toolVars>>

\* The states of the interactive loop (AwaitingInput, Dispatching, the three
\* places a save runs) and its two ends: Closed (returned) and Raised.
LoopStates == {"AwaitingInput", "Dispatching", "TurnSave", "ExitSave", "InterruptSave"}

\* Agent.__init__: the transcript is empty and no session is set.
InitAgentFields ==
    /\ clock = 0
    /\ saved = <<>>
    /\ session_manager = SessionManagerInit
    /\ conversation_history = <<>>
    /\ current_session = <<>>
    /\ addCalls = 0
    /\ apiCalls = 0
    /\ pc = "Idle"
    /\ line = <<>>
    /\ user_input = <<>>
    /\ response = <<>>
    /\ reported = "none"
    /\ caught = "none"
    /\ escaped = "none"
    /\ interrupted = FALSE
    /\ reads = 0
    /\ saveCalls = 0
    /\ closingSaves = 0
    /\ completionCalls = 0
    /\ entryLen = 0
    /\ entrySessionLen = 0
    /\ aliased = FALSE
    /\ lastCall = "none"
    /\ activeBy = "none"
    /\ activeLen = 0
    /\ activeSessionLen = 0
    /\ held = <<>>
    /\ saveLog = <<>>
    /\ loadResult = <<>>
    /\ listResult = <<>>
    /\ argv = NoArgs
    /\ agent_config = <<>>
    /\ constructed = 0
    /\ promptCalls = <<>>
    /\ lastRequest = <<>>
    /\ callResult = <<>>
    /\ exitCode = <<>>
    /\ loads = 0
    /\ executed = 0

\* The agent of a process that has no configuration file and no override.
InitFields ==
    /\ InitAgentFields
    /\ environ = PlainEnviron
    /\ bash_tool = <<AgentBashTool(get_default_config)>>

\* Agent.__init__, with an empty sessions directory.
InitAgent ==
    /\ InitFields
    /\ files = <<>>

Init ==
    /\ InitAgent
    /\ others = {}
    /\ rtSession = <<>>
    /\ rtData = <<>>
    /\ rtResult = <<>>

\* The history of whole files after a write of session s ended as `how`.
SavedAfter(s, how) ==
    IF how = "whole" THEN (s.session_id :> s) @@ saved
    ELSE IF how = "cut" THEN [k \in DOMAIN saved \ {s.session_id} |-> saved[k]]
    ELSE saved

(* ------------------------- calls before the loop ------------------------ *)

\* agent.add_message(role, content)
ApiAddMessage(role, content, t1, t2) ==
    /\ pc = "Idle"
    /\ apiCalls < MaxApiCalls
    /\ apiCalls' = apiCalls + 1
    /\ clock <= t1 /\ t1 <= t2
    /\ LET r == add_message(conversation_history, current_session, aliased,
                            role, content, t1, t2)
       IN  /\ conversation_history' = r.conversation_history
           /\ current_session' = r.current_session
    /\ addCalls' = addCalls + 1
    /\ clock' = IF current_session # <<>> THEN t2 ELSE clock
    /\ escaped' = "none"
    /\ lastCall' = "add_message"
    /\ UNCHANGED <<aliased, activeBy, activeLen, activeSessionLen>>
    /\ UNCHANGED <<storeVars, session_manager, pc, line, user_input, response, reported,
                   interrupted, reads, saveCalls, closingSaves, completionCalls,
                   entryLen, entrySessionLen>>
    /\ UNCHANGED <<rtVars, clientVars, cliVars, toolVars>>
    /\ UNCHANGED caught

\* agent.start_new_session()
ApiStartNewSession(t1, t2) ==
    /\ pc = "Idle"
    /\ apiCalls < MaxApiCalls
    /\ apiCalls' = apiCalls + 1
    /\ clock <= t1 /\ t1 <= t2
    /\ LET r == start_new_session(conversation_history, t1, t2)
       IN  /\ current_session' = r.current_session
           /\ conversation_history' = r.conversation_history
           /\ activeSessionLen' = Len(r.current_session[1].messages)
    /\ clock' = t2
    /\ escaped' = "none"
    /\ aliased' = FALSE
    /\ lastCall' = "start_new_session"
    /\ activeBy' = "start_new_session"
    /\ activeLen' = Len(conversation_history)
    /\ UNCHANGED <<storeVars, session_manager, addCalls, pc, line,
                   user_input, response, reported, interrupted, reads, saveCalls,
                   closingSaves, completionCalls, entryLen, entrySessionLen>>
    /\ UNCHANGED <<rtVars, clientVars, cliVars, toolVars>>
    /\ UNCHANGED caught

\* agent.save_current_session(): nothing without a session; the write ends
\* whole, or save_session raises SessionError to the caller.
ApiSaveCurrentSession(how) ==
    /\ pc = "Idle"
    /\ apiCalls < MaxApiCalls
    /\ apiCalls' = apiCalls + 1
    /\ how \in {"whole", "untouched", "cut"}
    /\ current_session = <<>> => how = "whole"
    /\ LET r == save_current_session(files, session_manager, current_session, how)
       IN  /\ files' = r.files
           /\ escaped' = r.raised
    /\ saved' = IF current_session = <<>> THEN saved
                ELSE SavedAfter(current_session[1], how)
    /\ lastCall' = "save_current_session"
    /\ UNCHANGED <<aliased, activeBy, activeLen, activeSessionLen>>
    /\ UNCHANGED <<clock, session_manager, conversation_history, current_session,
                   addCalls, pc, line, user_input, response, reported,
                   interrupted, reads, saveCalls, closingSaves, completionCalls,
                   entryLen, entrySessionLen>>
    /\ UNCHANGED <<rtVars, clientVars, cliVars, toolVars>>
    /\ UNCHANGED caught

\* cli.py resume mode: a new SessionManager loads the session, and
\* agent.resume_from_session(session) takes it; a failed load raises.
ApiResume(session_id, t) ==
    /\ pc = "Idle"
    /\ apiCalls < MaxApiCalls
    /\ apiCalls' = apiCalls + 1
    /\ clock <= t
    /\ LET r == load_session(files, SessionManagerInit, session_id, t)
       IN  IF r.ok
           THEN /\ current_session' = resume_from_session(r.session).current_session
                /\ conversation_history' =
                       resume_from_session(r.session).conversation_history
                /\ aliased' = resume_from_session(r.session).aliased
                /\ clock' = t
                /\ escaped' = "none"
                /\ lastCall' = "resume_from_session"
                /\ activeBy' = "resume_from_session"
                /\ activeLen' = Len(r.session.messages)
                /\ activeSessionLen' = Len(r.session.messages)
           ELSE /\ UNCHANGED <<current_session, conversation_history, clock>>
                /\ escaped' = r.error
                /\ lastCall' = "load_session"
                /\ UNCHANGED <<aliased, activeBy, activeLen, activeSessionLen>>
    /\ UNCHANGED <<storeVars, session_manager, addCalls, pc, line, user_input, response,
                   reported, interrupted, reads, saveCalls, closingSaves,
                   completionCalls, entryLen, entrySessionLen>>
    /\ UNCHANGED <<rtVars, clientVars, cliVars, toolVars>>
    /\ UNCHANGED caught

\* agent.chat_completion(agent.conversation_history)
ApiChatCompletion(outcome) ==
    /\ pc = "Idle"
    /\ apiCalls < MaxApiCalls
    /\ apiCalls' = apiCalls + 1
    /\ lastRequest' = <<conversation_history>>
    /\ LET r == chat_completion(outcome)
       IN  /\ callResult' = <<[outcome |-> outcome, result |-> r]>>
           /\ escaped' = IF r.ok THEN "none" ELSE r.error
    /\ lastCall' = "chat_completion"
    /\ UNCHANGED <<clock, storeVars, session_manager, conversation_history,
                   current_session, addCalls, pc, line, user_input, response,
                   reported, caught, interrupted, reads, saveCalls, closingSaves,
                   completionCalls, entryLen, entrySessionLen>>
    /\ UNCHANGED <<aliased, activeBy, activeLen, activeSessionLen>>
    /\ UNCHANGED <<rtVars, clientVars>>
    /\ UNCHANGED <<argv, environ, agent_config, constructed, promptCalls, exitCode, loads,
                   bash_tool>>
    /\ executed' = executed + Len(ReplyCommands(outcome))

\* agent.process_single_prompt(prompt)
ApiProcessSinglePrompt(prompt, outcome) ==
    /\ pc = "Idle"
    /\ apiCalls < MaxApiCalls
    /\ apiCalls' = apiCalls + 1
    /\ promptCalls' = Append(promptCalls, prompt)
    /\ LET r == process_single_prompt(conversation_history, prompt, outcome)
       IN  /\ lastRequest' = <<r.messages>>
           /\ conversation_history' = r.conversation_history
           /\ callResult' = <<[outcome |-> outcome, result |-> r.result]>>
           /\ escaped' = IF r.result.ok THEN "none" ELSE r.result.error
    /\ lastCall' = "process_single_prompt"
    /\ UNCHANGED <<clock, storeVars, session_manager, current_session, addCalls, pc,
                   line, user_input, response, reported, caught, interrupted, reads,
                   saveCalls, closingSaves, completionCalls, entryLen,
                   entrySessionLen>>
    /\ UNCHANGED <<aliased, activeBy, activeLen, activeSessionLen>>
    /\ UNCHANGED <<rtVars, clientVars>>
    /\ UNCHANGED <<argv, environ, agent_config, constructed, exitCode, loads, bash_tool>>
    /\ executed' = executed + Len(ReplyCommands(outcome))

(* ------------------------- interactive_loop ----------------------------- *)

\* An entry that starts a session whether or not one is set.
EntrySession_always_starts(current, history, t1, t2) ==
    [started |-> TRUE,
     current_session |-> start_new_session(history, t1, t2).current_session]

\* agent.py:91-93: start_new_session is called when "not self.current_session"
\* holds, which it does of None only (a Session is always true).
EntrySession(current, history, t1, t2) ==
    IF current = <<>>
    THEN [started |-> TRUE,
          current_session |-> start_new_session(history, t1, t2).current_session]
    ELSE [started |-> FALSE, current_session |-> current]

\* agent.py:87-100: a session is started unless one is set; the banner.
EnterLoop(t1, t2) ==
    /\ pc = "Idle"
    /\ clock <= t1 /\ t1 <= t2
    /\ IF EntrySession(current_session, conversation_history, t1, t2).started
       THEN /\ current_session' =
                   EntrySession(current_session, conversation_history, t1, t2).current_session
            /\ clock' = t2
            /\ aliased' = FALSE
            /\ activeBy' = "start_new_session"
            /\ activeLen' = Len(conversation_history)
            /\ activeSessionLen' = 0
       ELSE /\ t1 = clock /\ t2 = clock
            /\ UNCHANGED <<current_session, clock, aliased, activeBy, activeLen,
                           activeSessionLen>>
    /\ UNCHANGED lastCall
    /\ pc' = "AwaitingInput"
    /\ reported' = "Session"
    /\ escaped' = "none"
    /\ entryLen' = Len(conversation_history)
    /\ entrySessionLen' = Len(current_session'[1].messages)
    /\ UNCHANGED <<storeVars, session_manager, conversation_history, addCalls, apiCalls,
                   line, user_input, response, interrupted, reads, saveCalls,
                   closingSaves, completionCalls>>
    /\ UNCHANGED <<rtVars, clientVars, cliVars, toolVars>>
    /\ UNCHANGED caught

\* A request made of the message just entered.
LoopRequest_last_only(history) == <<history[Len(history)]>>

\* agent.py:120: the messages chat_completion is called with are
\* self.conversation_history.
LoopRequest(history) == history

\* agent.py:104-120: input() returned raw.  An exit keyword calls
\* save_current_session; an empty input goes round; any other input is added
\* as the user message and chat_completion is called with the transcript.
ReadInput(raw, t1, t2) ==
    /\ pc = "AwaitingInput"
    /\ reads < MaxInputs
    /\ clock <= t1 /\ t1 <= t2
    /\ line' = raw
    /\ user_input' = Strip(raw)
    /\ reads' = reads + 1
    /\ IF IsExitCommand(Strip(raw))
       THEN /\ t1 = clock /\ t2 = clock
            /\ pc' = "ExitSave"
            /\ saveCalls' = saveCalls + 1
            /\ closingSaves' = closingSaves + 1
            /\ UNCHANGED <<clock, conversation_history, current_session, addCalls,
                           completionCalls, lastRequest>>
       ELSE IF Strip(raw) = <<>>
       THEN /\ t1 = clock /\ t2 = clock
            /\ UNCHANGED <<clock, pc, saveCalls, closingSaves, conversation_history,
                           current_session, addCalls, completionCalls, lastRequest>>
       ELSE /\ LET r == add_message(conversation_history, current_session, aliased,
                                    "user", Strip(raw), t1, t2)
               IN  /\ conversation_history' = r.conversation_history
                   /\ current_session' = r.current_session
                   /\ lastRequest' = <<LoopRequest(r.conversation_history)>>
            /\ addCalls' = addCalls + 1
            /\ clock' = t2
            /\ pc' = "Dispatching"
            /\ completionCalls' = completionCalls + 1
            /\ UNCHANGED <<saveCalls, closingSaves>>
    /\ UNCHANGED <<storeVars, session_manager, apiCalls, response, reported, escaped,
                   interrupted, entryLen, entrySessionLen>>
    /\ UNCHANGED <<rtVars, sessVars, clientVars, toolVars>>
    /\ UNCHANGED <<argv, environ, agent_config, constructed, promptCalls, callResult,
                   exitCode, loads>>
    /\ caught' = "none"

\* Except clauses that take the end of input for the end of the loop.
ExceptClause_eof_closes(exception) ==
    IF exception = "ModelError"
    THEN [pc |-> "AwaitingInput", reported |-> "Error"]
    ELSE IF exception = "EOFError"
    THEN [pc |-> "Closed", reported |-> "Goodbye!"]
    ELSE [pc |-> "AwaitingInput", reported |-> "Unexpected error"]

\* Except clauses where only ModelError keeps the loop going.
ExceptClause_breaks(exception) ==
    IF exception = "ModelError"
    THEN [pc |-> "AwaitingInput", reported |-> "Error"]
    ELSE [pc |-> "Closed", reported |-> "Unexpected error"]

\* The except clauses at agent.py:133-138 for an exception other than
\* KeyboardInterrupt: what is printed, and where the loop goes (no break).
ExceptClause(exception) ==
    IF exception = "ModelError"
    THEN [pc |-> "AwaitingInput", reported |-> "Error"]
    ELSE [pc |-> "AwaitingInput", reported |-> "Unexpected error"]

\* input() raised EOFError: caught at agent.py:135, reported, the loop goes on.
InputEOF ==
    /\ pc = "AwaitingInput"
    /\ caught' = "EOFError"
    /\ pc' = ExceptClause("EOFError").pc
    /\ reported' = ExceptClause("EOFError").reported
    /\ UNCHANGED <<clock, storeVars, agentVars, line, user_input, response, escaped,
                   interrupted, reads, saveCalls, closingSaves, completionCalls,
                   entryLen, entrySessionLen>>
    /\ UNCHANGED <<rtVars, sessVars, clientVars, cliVars, toolVars>>

\* agent.py:128-130: a KeyboardInterrupt raised in the try block is caught and
\* save_current_session is called.
CatchInterrupt ==
    /\ caught' = "KeyboardInterrupt"
    /\ interrupted' = TRUE
    /\ reported' = "Saving session..."
    /\ saveCalls' = saveCalls + 1
    /\ closingSaves' = closingSaves + 1
    /\ pc' = "InterruptSave"

\* KeyboardInterrupt while input() waits.
InputInterrupt ==
    /\ pc = "AwaitingInput"
    /\ CatchInterrupt
    /\ UNCHANGED <<clock, storeVars, agentVars, line, user_input, response, escaped,
                   reads, completionCalls, entryLen, entrySessionLen>>
    /\ UNCHANGED <<rtVars, sessVars, clientVars, cliVars, toolVars>>

\* agent.py:120-126: chat_completion returned; the reply is added and printed
\* and save_current_session is called.
CompletionReturns(c, t1, t2) ==
    /\ pc = "Dispatching"
    /\ clock <= t1 /\ t1 <= t2
    /\ response' = <<CompletionText(c)>>
    /\ LET r == add_message(conversation_history, current_session, aliased,
                            "assistant", CompletionText(c), t1, t2)
       IN  /\ conversation_history' = r.conversation_history
           /\ current_session' = r.current_session
    /\ addCalls' = addCalls + 1
    /\ clock' = t2
    /\ reported' = "Agent"
    /\ saveCalls' = saveCalls + 1
    /\ pc' = "TurnSave"
    /\ UNCHANGED <<storeVars, session_manager, apiCalls, line, user_input, escaped,
                   interrupted, reads, closingSaves, completionCalls, entryLen,
                   entrySessionLen>>
    /\ UNCHANGED <<rtVars, sessVars, clientVars, cliVars, bash_tool>>
    /\ executed' = executed + Len(ReplyCommands(c))
    /\ caught' = "none"

\* chat_completion raised ModelError: caught at agent.py:133, reported.
CompletionModelError ==
    /\ pc = "Dispatching"
    /\ caught' = "ModelError"
    /\ pc' = ExceptClause("ModelError").pc
    /\ reported' = ExceptClause("ModelError").reported
    /\ UNCHANGED <<clock, storeVars, agentVars, line, user_input, response, escaped,
                   interrupted, reads, saveCalls, closingSaves, completionCalls,
                   entryLen, entrySessionLen>>
    /\ UNCHANGED <<rtVars, sessVars, clientVars, cliVars, toolVars>>

\* KeyboardInterrupt inside chat_completion: its except Exception lets it pass.
CompletionInterrupt ==
    /\ pc = "Dispatching"
    /\ CatchInterrupt
    /\ UNCHANGED <<clock, storeVars, agentVars, line, user_input, response, escaped,
                   reads, completionCalls, entryLen, entrySessionLen>>
    /\ UNCHANGED <<rtVars, sessVars, clientVars, cliVars, toolVars>>

\* The save_current_session call under way returned.
SaveReturns ==
    /\ pc \in {"TurnSave", "ExitSave", "InterruptSave"}
    /\ files' = save_session(files, session_manager, current_session[1])
    /\ saved' = SavedAfter(current_session[1], "whole")
    /\ pc' = IF pc = "TurnSave" THEN "AwaitingInput" ELSE "Closed"
    /\ reported' = IF pc = "ExitSave" THEN "Session saved"
                   ELSE IF pc = "InterruptSave" THEN "Goodbye!"
                   ELSE reported
    /\ UNCHANGED <<clock, agentVars, line, user_input, response, escaped, interrupted,
                   reads, saveCalls, closingSaves, completionCalls, entryLen,
                   entrySessionLen>>
    /\ UNCHANGED <<rtVars, sessVars, clientVars, cliVars, toolVars>>
    /\ caught' = "none"

\* The save_current_session call under way raised SessionError: in the try
\* block it is caught at agent.py:135; in the interrupt handler it leaves the loop.
SaveRaises(how) ==
    /\ pc \in {"TurnSave", "ExitSave", "InterruptSave"}
    /\ how \in {"untouched", "cut"}
    /\ files' = BrokenSave(files, session_manager, current_session[1], how)
    /\ saved' = SavedAfter(current_session[1], how)
    /\ IF pc = "InterruptSave"
       THEN /\ pc' = "Raised"
            /\ escaped' = "SessionError"
            /\ UNCHANGED <<reported, caught>>
       ELSE /\ caught' = "SessionError"
            /\ pc' = ExceptClause("SessionError").pc
            /\ reported' = ExceptClause("SessionError").reported
            /\ UNCHANGED escaped
    /\ UNCHANGED <<clock, agentVars, line, user_input, response, interrupted, reads,
                   saveCalls, closingSaves, completionCalls, entryLen, entrySessionLen>>
    /\ UNCHANGED <<rtVars, sessVars, clientVars, cliVars, toolVars>>

\* KeyboardInterrupt during the save_current_session call under way: in the
\* try block the handler saves again; in the handler it leaves the loop.
SaveInterrupted(how) ==
    /\ pc \in {"TurnSave", "ExitSave", "InterruptSave"}
    /\ how \in {"untouched", "cut", "whole"}
    /\ files' = BrokenSave(files, session_manager, current_session[1], how)
    /\ saved' = SavedAfter(current_session[1], how)
    /\ IF pc = "InterruptSave"
       THEN /\ pc' = "Raised"
            /\ escaped' = "KeyboardInterrupt"
            /\ UNCHANGED <<interrupted, reported, caught, saveCalls, closingSaves>>
       ELSE CatchInterrupt
    /\ UNCHANGED <<clock, agentVars, line, user_input, response, reads,
                   completionCalls, entryLen, entrySessionLen>>
    /\ IF pc = "InterruptSave" THEN TRUE ELSE UNCHANGED escaped
    /\ UNCHANGED <<rtVars, sessVars, clientVars, cliVars, toolVars>>

\* The calls a client makes on an agent it constructed.
NextApi ==
    \/ \E m \in ApiMessages, t1, t2 \in Times :
           ApiAddMessage(m.role, m.content, t1, t2)
    \/ \E t1, t2 \in Times : ApiStartNewSession(t1, t2)
    \/ \E how \in {"whole", "untouched", "cut"} : ApiSaveCurrentSession(how)
    \/ \E session_id \in SessionIds, t \in Times : ApiResume(session_id, t)

SpecApi == Init /\ [][NextApi]_vars

\* cli.py interactive mode: the agent is constructed and interactive_loop runs.
Next ==
    \/ \E t1, t2 \in Times : EnterLoop(t1, t2)
    \/ \E raw \in RawInputs, t1, t2 \in Times : ReadInput(raw, t1, t2)
    \/ InputEOF
    \/ InputInterrupt
    \/ \E c \in Completions, t1, t2 \in Times : CompletionReturns(c, t1, t2)
    \/ CompletionModelError
    \/ CompletionInterrupt
    \/ SaveReturns
    \/ \E how \in {"untouched", "cut"} : SaveRaises(how)
    \/ \E how \in {"untouched", "cut", "whole"} : SaveInterrupted(how)

Spec == Init /\ [][Next]_vars

(* --------------------- to_dict and from_dict alone ----------------------- *)

\* The sequences over S of at most n elements.
SeqsUpTo(S, n) == UNION {[1..k -> S] : k \in 0..n}

\* Messages as Session.add_message makes them.
MessageInputs ==
    {[role |-> r, content |-> c, timestamp |-> IsoFormat(t)] :
        r \in Roles, c \in {Hello, TwoLines}, t \in Times}

\* Sessions: any id, messages and timestamps.
SessionInputs ==
    [session_id : SessionIds,
     messages   : SeqsUpTo(MessageInputs, MaxMessages),
     created_at : {IsoFormat(t) : t \in Times},
     updated_at : {IsoFormat(t) : t \in Times}]

InitRoundTrip ==
    /\ InitAgent
    /\ others = {}
    /\ rtSession \in {<<s>> : s \in SessionInputs}
    /\ rtData = <<>>
    /\ rtResult = <<>>

\* data = session.to_dict()
ToDict ==
    /\ rtData = <<>>
    /\ rtData' = <<to_dict(rtSession[1])>>
    /\ UNCHANGED <<clock, storeVars, agentVars, loopVars, rtSession, rtResult,
                   sessVars, clientVars, cliVars, toolVars>>

\* Session.from_dict(data), whose constructor reads the clock.
FromDict(t) ==
    /\ rtData # <<>>
    /\ rtResult = <<>>
    /\ clock <= t
    /\ clock' = t
    /\ rtResult' = <<from_dict(rtData[1], t)>>
    /\ UNCHANGED <<storeVars, agentVars, loopVars, rtSession, rtData,
                   sessVars, clientVars, cliVars, toolVars>>

NextRoundTrip ==
    \/ ToDict
    \/ \E t \in Times : FromDict(t)

SpecRoundTrip == InitRoundTrip /\ [][NextRoundTrip]_vars

(* ------------------- from_dict on records as found ---------------------- *)

\* The order of two isoformat() strings as Python compares them: by the
\* seconds, and a string without fraction before the ones with it.
IsoLeq(a, b) ==
    \/ a[1] < b[1]
    \/ /\ a[1] = b[1]
       /\ \/ Len(a) = 1
          \/ Len(b) = 2 /\ a[2] <= b[2]

\* The dict d with the keys K only.
Restrict(d, K) == [k \in K |-> d[k]]

\* The records from_dict may be given: what to_dict wrote for a session that
\* was not updated before it was created, with any of the keys that
\* from_dict reads through dict.get left out.
RecordInputs ==
    {Restrict(to_dict(s), K \cup {"session_id"}) :
        s \in {x \in SessionInputs : IsoLeq(x.created_at, x.updated_at)},
        K \in SUBSET {"messages", "created_at", "updated_at"}}

\* A record written no later than the clock now shows.
InitRecord ==
    /\ InitFields
    /\ files = <<>>
    /\ others = {}
    /\ rtSession = <<>>
    /\ rtData \in {<<d>> : d \in RecordInputs}
    /\ \A k \in DOMAIN rtData[1] \cap {"created_at", "updated_at"} :
           IsoLeq(rtData[1][k], IsoFormat(clock))
    /\ rtResult = <<>>

\* session.add_message(role, content) on the session from_dict returned
RecordAddMessage(role, content, t1, t2) ==
    /\ rtResult # <<>>
    /\ Len(rtResult[1].messages) <= MaxMessages
    /\ clock <= t1 /\ t1 <= t2
    /\ rtResult' = <<SessionAddMessage(rtResult[1], role, content, t1, t2)>>
    /\ clock' = t2
    /\ UNCHANGED <<storeVars, agentVars, loopVars, rtSession, rtData,
                   sessVars, clientVars, cliVars, toolVars>>

NextRecord ==
    \/ \E t \in Times : FromDict(t)
    \/ \E t1, t2 \in Times : RecordAddMessage("user", Hello, t1, t2)

SpecRecord == InitRecord /\ [][NextRecord]_vars

(* ---------------------- SessionManager on its own ----------------------- *)

\* An id no session of the model was created with.
MissingId == GenerateSessionId(MaxTime) + 1

\* Names other programs may have left in the sessions directory.
OtherNames == { <<"n", ".", "t", "x", "t">>,
                <<"n", ".", "j", "s", "o", "n">>,
                JsonSuffix }

\* What the file of a session id may hold when it was not written by
\* save_session: {}, [], bytes that are not UTF-8, a document cut short, and
\* an object with the session_id and the messages only.
ForeignFiles ==
    { [form |-> "object",   complete |-> TRUE,  text |-> <<>>],
      [form |-> "array",    complete |-> TRUE,  text |-> <<>>],
      [form |-> "not_utf8", complete |-> TRUE,  text |-> <<>>],
      CutFile,
      [form |-> "object",   complete |-> TRUE,
       text |-> << <<"session_id", 0>>, <<"messages", <<>>>> >>] }

\* The sessions directory as SessionManager.__init__ may find it: empty, or
\* with a file under the first session id.
InitialFiles ==
    {<<>>} \cup {SessionPath(SessionManagerInit, 0) :> f : f \in ForeignFiles}

\* SessionManager.__init__ on a sessions directory without other files.
InitStore ==
    /\ InitFields
    /\ files \in InitialFiles
    /\ others = {}
    /\ rtSession = <<>>
    /\ rtData = <<>>
    /\ rtResult = <<>>

\* session = manager.create_session()
StoreCreate(t1, t2) ==
    /\ Len(held) < MaxHeld
    /\ clock <= t1 /\ t1 <= t2
    /\ held' = Append(held, [session |-> create_session(t1, t2), tick |-> t1])
    /\ clock' = t2
    /\ UNCHANGED <<storeVars, agentVars, loopVars, rtVars, sessVars,
                   others, saveLog, loadResult, listResult, cliVars, toolVars>>

\* session.add_message(role, content) on a session the client holds
StoreAddMessage(i, role, content, t1, t2) ==
    /\ i \in 1..Len(held)
    /\ Len(held[i].session.messages) < MaxMessages
    /\ clock <= t1 /\ t1 <= t2
    /\ held' = [held EXCEPT ![i].session = SessionAddMessage(@, role, content, t1, t2)]
    /\ clock' = t2
    /\ UNCHANGED <<storeVars, agentVars, loopVars, rtVars, sessVars,
                   others, saveLog, loadResult, listResult, cliVars, toolVars>>

\* The log after a save_session call on the session held at index i.  Under
\* each id it keeps the session and the index of the last call that returned,
\* whether the last call under the id returned, and the indexes of the calls
\* that returned before.
LoggedSave(log, i, session, returned) ==
    LET id == session.session_id
        known == id \in DOMAIN log
    IN  IF returned
        THEN (id :> [index |-> i, session |-> session, intact |-> TRUE,
                     before |-> IF known
                                THEN log[id].before \cup {log[id].index}
                                ELSE {}]) @@ log
        ELSE IF known
        THEN (id :> [log[id] EXCEPT !.intact = FALSE]) @@ log
        ELSE log

\* manager.save_session(session): the write ends whole and the call returns,
\* or open() or the write fails and the call raises SessionError.
StoreSave(i, how) ==
    /\ i \in 1..Len(held)
    /\ how \in {"whole", "untouched", "cut"}
    /\ files' = BrokenSave(files, session_manager, held[i].session, how)
    /\ saved' = SavedAfter(held[i].session, how)
    /\ saveLog' = LoggedSave(saveLog, i, held[i].session, how = "whole")
    /\ escaped' = IF how = "whole" THEN "none" ELSE "SessionError"
    /\ UNCHANGED <<clock, agentVars, pc, line, user_input, response, reported, caught,
                   interrupted, reads, saveCalls, closingSaves, completionCalls,
                   entryLen, entrySessionLen, rtVars, sessVars,
                   others, held, loadResult, listResult, cliVars, toolVars>>

\* manager.load_session(session_id)
StoreLoad(session_id, t) ==
    /\ clock <= t
    /\ LET r == load_session(files, session_manager, session_id, t)
       IN  /\ r.ok \/ t = clock
           /\ loadResult' = <<[session_id |-> session_id,
                                existed |-> session_exists(files, session_manager,
                                                           session_id, FALSE).value,
                                result |-> r]>>
           /\ escaped' = IF r.ok THEN "none" ELSE r.error
    /\ clock' = t
    /\ UNCHANGED <<storeVars, agentVars, pc, line, user_input, response, reported, caught,
                   interrupted, reads, saveCalls, closingSaves, completionCalls,
                   entryLen, entrySessionLen, rtVars, sessVars,
                   others, held, saveLog, listResult, cliVars, toolVars>>

\* manager.list_sessions()
StoreList ==
    /\ listResult' = <<[names |-> DirNames(files, others),
                         ids |-> list_sessions(files, others)]>>
    /\ UNCHANGED <<clock, storeVars, agentVars, loopVars, rtVars, sessVars,
                   others, held, saveLog, loadResult, cliVars, toolVars>>

\* Sessions are created, filled and saved, in a directory that was empty; time
\* passes between the calls, not within one.
NextStore ==
    \/ \E t \in Times : StoreCreate(t, t)
    \/ \E i \in 1..MaxHeld : StoreAddMessage(i, "user", Hello, clock, clock)
    \/ \E i \in 1..MaxHeld, how \in {"whole", "untouched", "cut"} : StoreSave(i, how)

SpecStore == Init /\ [][NextStore]_vars

\* Sessions are created and saved, and sessions are loaded by id.
NextLoad ==
    \/ \E t1, t2 \in Times : StoreCreate(t1, t2)
    \/ \E i \in 1..MaxHeld, how \in {"whole", "untouched", "cut"} : StoreSave(i, how)
    \/ \E session_id \in SessionIds \cup {MissingId}, t \in Times :
           StoreLoad(session_id, t)

SpecLoad == InitStore /\ [][NextLoad]_vars

\* SessionManager.__init__ on a sessions directory that holds other files.
InitList ==
    /\ InitFields
    /\ files \in InitialFiles
    /\ others \in SUBSET OtherNames
    /\ rtSession = <<>>
    /\ rtData = <<>>
    /\ rtResult = <<>>

\* Sessions are created and saved, and the directory is listed.
NextList ==
    \/ \E t1, t2 \in Times : StoreCreate(t1, t2)
    \/ \E i \in 1..MaxHeld, how \in {"whole", "untouched", "cut"} : StoreSave(i, how)
    \/ StoreList

SpecList == InitList /\ [][NextList]_vars

(* ------------------ one call on the agent, then the loop ---------------- *)

\* A session of one user message as save_session wrote it.
StoredSession == SessionAddMessage(SessionInit(0, 0), "user", Hello, 0, 0)

\* The sessions directory: empty, or with that session's file.
InitAgentFiles ==
    /\ InitFields
    /\ files \in {<<>>, SessionPath(SessionManagerInit, 0) :> WholeFile(StoredSession)}
    /\ others = {}
    /\ rtSession = <<>>
    /\ rtData = <<>>
    /\ rtResult = <<>>

\* The lines input() returns in these runs: a blank one, an exit keyword, a
\* message.
AgentInputs == { <<" ", " ">>, <<"b","y","e">>, Hello }

\* Before the loop the client may add one message, and may then make one
\* other call on the agent.
FirstCall ==
    \/ /\ lastCall = "none"
       /\ \E m \in ApiMessages : ApiAddMessage(m.role, m.content, clock, clock)
    \/ /\ lastCall \in {"none", "add_message"}
       /\ \/ \E t \in Times : ApiStartNewSession(t, t)
          \/ ApiSaveCurrentSession("whole")
          \/ \E session_id \in SessionIds \cup {MissingId}, t \in Times :
                 ApiResume(session_id, t)
          \/ \E outcome \in CompletionOutcomes :
                 /\ outcome.exception \in {"none", "Timeout"}
                 /\ \/ ApiChatCompletion(outcome)
                    \/ ApiProcessSinglePrompt(Hello, outcome)

\* Then interactive_loop runs; time passes between its steps, not within one.
NextAgent ==
    \/ FirstCall
    \/ EnterLoop(clock, clock)
    \/ \E raw \in AgentInputs, t \in Times : ReadInput(raw, t, t)
    \/ InputEOF
    \/ InputInterrupt
    \/ \E c \in Completions : CompletionReturns(c, clock, clock)
    \/ CompletionModelError
    \/ CompletionInterrupt
    \/ SaveReturns
    \/ \E how \in {"untouched", "cut"} : SaveRaises(how)
    \/ \E how \in {"untouched", "cut", "whole"} : SaveInterrupted(how)

SpecAgent == InitAgentFiles /\ [][NextAgent]_vars

(* ------------------- prompts on an agent, no loop ----------------------- *)

\* The client adds messages, asks for completions of the transcript and
\* sends single prompts.
NextPrompt ==
    \/ ApiAddMessage("user", Hello, clock, clock)
    \/ \E outcome \in CompletionOutcomes : ApiChatCompletion(outcome)
    \/ \E outcome \in CompletionOutcomes : ApiProcessSinglePrompt(Hello, outcome)

SpecPrompt == Init /\ [][NextPrompt]_vars

(* -------------------------------- main ---------------------------------- *)

\* main is called: nothing is constructed yet.
InitCli ==
    /\ clock = 0
    /\ files \in InitialFiles
                 \cup {SessionPath(SessionManagerInit, 0) :> WholeFile(StoredSession)}
    /\ saved = <<>>
    /\ session_manager = [sessions_dir |-> <<>>]
    /\ conversation_history = <<>>
    /\ current_session = <<>>
    /\ addCalls = 0
    /\ apiCalls = 0
    /\ pc = "Main"
    /\ line = <<>>
    /\ user_input = <<>>
    /\ response = <<>>
    /\ reported = "none"
    /\ caught = "none"
    /\ escaped = "none"
    /\ interrupted = FALSE
    /\ reads = 0
    /\ saveCalls = 0
    /\ closingSaves = 0
    /\ completionCalls = 0
    /\ entryLen = 0
    /\ entrySessionLen = 0
    /\ rtSession = <<>>
    /\ rtData = <<>>
    /\ rtResult = <<>>
    /\ aliased = FALSE
    /\ lastCall = "none"
    /\ activeBy = "none"
    /\ activeLen = 0
    /\ activeSessionLen = 0
    /\ others = {}
    /\ held = <<>>
    /\ saveLog = <<>>
    /\ loadResult = <<>>
    /\ listResult = <<>>
    /\ argv \in ArgvInputs
    /\ environ \in [file : ConfigFiles, env : Environments]
    /\ agent_config = <<>>
    /\ constructed = 0
    /\ promptCalls = <<>>
    /\ lastRequest = <<>>
    /\ callResult = <<>>
    /\ exitCode = <<>>
    /\ loads = 0
    /\ bash_tool = <<>>
    /\ executed = 0

\* What the steps of main below leave alone.
MainFrame ==
    UNCHANGED <<storeVars, addCalls, apiCalls, line, user_input, response, caught,
                interrupted, reads, saveCalls, closingSaves, completionCalls,
                entryLen, entrySessionLen, rtVars, clientVars, argv, environ>>

\* cli.py:68-99 and :158-166: the configuration is loaded, the modes are
\* tested, and Agent(agent_config) is constructed, which may raise.
MainStart(constructs) ==
    /\ pc = "Main"
    /\ LET cfg == load_configuration(environ.file, environ.env)
       IN  IF ~cfg.ok
           THEN /\ reported' = IF cfg.error = "ConfigurationError"
                               THEN "Configuration error"
                               ELSE "Error"
                /\ exitCode' = <<1>>
                /\ pc' = "Exited"
                /\ constructs
                /\ UNCHANGED <<agent_config, constructed, session_manager, bash_tool>>
           ELSE /\ agent_config' = <<FlagOverrides(cfg.config, argv)>>
                /\ IF Cardinality(active_modes(argv)) > 1
                   THEN /\ reported' = "Cannot use --prompt, --file, and --resume together"
                        /\ exitCode' = <<2>>
                        /\ pc' = "Exited"
                        /\ constructs
                        /\ UNCHANGED <<constructed, session_manager, bash_tool>>
                   ELSE IF ~constructs
                   THEN /\ reported' = "Failed to initialize agent"
                        /\ exitCode' = <<1>>
                        /\ pc' = "Exited"
                        /\ UNCHANGED <<constructed, session_manager, bash_tool>>
                   ELSE /\ constructed' = constructed + 1
                        /\ session_manager' = SessionManagerInit
                        /\ bash_tool' = <<AgentBashTool(FlagOverrides(cfg.config, argv))>>
                        /\ pc' = "Dispatch"
                        /\ UNCHANGED <<reported, exitCode>>
    /\ UNCHANGED <<clock, conversation_history, current_session, escaped, sessVars,
                   promptCalls, lastRequest, callResult, loads, executed>>
    /\ MainFrame

\* cli.py:107-108, 118-119 and the handlers at :140-153: the response is
\* printed and main returns 0 at :155; a ModelError is an AgentError, a
\* KeyboardInterrupt returns 130.
SinglePrompt(prompt, outcome) ==
    LET r == process_single_prompt(conversation_history, prompt, outcome)
    IN  /\ promptCalls' = Append(promptCalls, prompt)
        /\ lastRequest' = <<r.messages>>
        /\ conversation_history' = r.conversation_history
        /\ callResult' = <<[outcome |-> outcome, result |-> r.result]>>
        /\ lastCall' = "process_single_prompt"
        /\ escaped' = "none"
        /\ executed' = executed + Len(ReplyCommands(outcome))
        /\ reported' = IF r.result.ok THEN "Agent"
                       ELSE IF r.result.error = "ModelError" THEN "Agent error"
                       ELSE "Interrupted by user"
        /\ exitCode' = IF r.result.ok THEN <<0>>
                       ELSE IF r.result.error = "ModelError" THEN <<1>>
                       ELSE <<130>>
        /\ pc' = "Exited"

\* cli.py:103-108: single-shot mode.
MainSingleShot(outcome) ==
    /\ pc = "Dispatch"
    /\ PromptMode(argv)
    /\ SinglePrompt(argv.prompt[1], outcome)
    /\ UNCHANGED <<clock, session_manager, current_session, aliased, activeBy, activeLen,
                   activeSessionLen, agent_config, constructed, loads, bash_tool>>
    /\ MainFrame

\* cli.py:109-119: file input mode; a file that cannot be read returns 1.
MainFileInput(outcome) ==
    /\ pc = "Dispatch"
    /\ FileMode(argv)
    /\ IF argv.input_file[1].readable
       THEN SinglePrompt(argv.input_file[1].content, outcome)
       ELSE /\ reported' = "Error reading file"
            /\ exitCode' = <<1>>
            /\ pc' = "Exited"
            /\ outcome.exception = "none" /\ ~outcome.is_none
            /\ UNCHANGED <<promptCalls, lastRequest, conversation_history, callResult,
                           lastCall, escaped, executed>>
    /\ UNCHANGED <<clock, session_manager, current_session, aliased, activeBy, activeLen,
                   activeSessionLen, agent_config, constructed, loads, bash_tool>>
    /\ MainFrame

\* cli.py:120-133 and :147-153: a new SessionManager loads the session; the
\* agent resumes from it and interactive_loop is called; a SessionError is
\* reported as session error, any other exception as unexpected error; both
\* return 1.
MainResume(t) ==
    /\ pc = "Dispatch"
    /\ ResumeMode(argv)
    /\ clock <= t
    /\ loads' = loads + 1
    /\ LET r == load_session(files, SessionManagerInit, argv.session_id[1], t)
       IN  IF r.ok
           THEN /\ current_session' = resume_from_session(r.session).current_session
                /\ conversation_history' =
                       resume_from_session(r.session).conversation_history
                /\ aliased' = resume_from_session(r.session).aliased
                /\ clock' = t
                /\ lastCall' = "resume_from_session"
                /\ activeBy' = "resume_from_session"
                /\ activeLen' = Len(r.session.messages)
                /\ activeSessionLen' = Len(r.session.messages)
                /\ pc' = "Idle"
                /\ UNCHANGED <<reported, exitCode>>
           ELSE /\ t = clock
                /\ reported' = IF r.error = "SessionError" THEN "Session error"
                               ELSE "Unexpected error"
                /\ exitCode' = <<1>>
                /\ pc' = "Exited"
                /\ lastCall' = "load_session"
                /\ UNCHANGED <<current_session, conversation_history, clock, aliased,
                               activeBy, activeLen, activeSessionLen>>
    /\ UNCHANGED <<session_manager, escaped, agent_config, constructed, promptCalls,
                   lastRequest, callResult, toolVars>>
    /\ MainFrame

\* cli.py:134-138: interactive mode; interactive_loop is called.
MainInteractive ==
    /\ pc = "Dispatch"
    /\ ~PromptMode(argv) /\ ~FileMode(argv) /\ ~ResumeMode(argv)
    /\ pc' = "Idle"
    /\ UNCHANGED <<clock, session_manager, conversation_history, current_session, reported,
                   escaped, sessVars, agent_config, constructed, promptCalls, lastRequest,
                   callResult, exitCode, loads, toolVars>>
    /\ MainFrame

\* main up to the first prompt of interactive_loop; what the loop does from
\* there is the specification Spec.
NextCli ==
    \/ \E constructs \in BOOLEAN : MainStart(constructs)
    \/ \E outcome \in CompletionOutcomes : MainSingleShot(outcome)
    \/ \E outcome \in CompletionOutcomes : MainFileInput(outcome)
    \/ \E t \in Times : MainResume(t)
    \/ MainInteractive
    \/ \E t1, t2 \in Times : EnterLoop(t1, t2)

SpecCli == InitCli /\ [][NextCli]_vars

(* ------------------------ main and the loop ----------------------------- *)

\* main is called with the stored session in the sessions directory and no
\* override in the environment.
InitMain ==
    /\ InitCli
    /\ files = SessionPath(SessionManagerInit, 0) :> WholeFile(StoredSession)
    /\ environ.env = <<>>

\* main in each of its modes, and interactive_loop from its first prompt to
\* its end; time passes between the steps of the loop.
NextMain ==
    \/ \E constructs \in BOOLEAN : MainStart(constructs)
    \/ \E outcome \in CompletionOutcomes : MainSingleShot(outcome)
    \/ \E outcome \in CompletionOutcomes : MainFileInput(outcome)
    \/ MainResume(clock)
    \/ MainInteractive
    \/ EnterLoop(clock, clock)
    \/ \E raw \in AgentInputs, t \in Times : ReadInput(raw, t, t)
    \/ InputEOF
    \/ InputInterrupt
    \/ \E c \in Completions : CompletionReturns(c, clock, clock)
    \/ CompletionModelError
    \/ CompletionInterrupt
    \/ SaveReturns
    \/ \E how \in {"untouched", "cut"} : SaveRaises(how)
    \/ \E how \in {"untouched", "cut", "whole"} : SaveInterrupted(how)

SpecMain == InitMain /\ [][NextMain]_vars

(* ----------------------- load_configuration alone ----------------------- *)

\* A process with one of the configuration files and one of the environments.
InitConfig ==
    /\ InitAgentFields
    /\ environ \in [file : ConfigFileInputs, env : EnvironInputs]
    /\ bash_tool = <<>>
    /\ files = <<>>
    /\ others = {}
    /\ rtSession = <<>>
    /\ rtData = <<>>
    /\ rtResult = <<>>

\* config = load_configuration(config_path)
LoadConfiguration ==
    /\ pc = "Idle"
    /\ callResult = <<>>
    /\ LET r == load_configuration(environ.file, environ.env)
       IN  /\ callResult' = <<r>>
           /\ escaped' = IF r.ok THEN "none" ELSE r.error
    /\ lastCall' = "load_configuration"
    /\ UNCHANGED <<clock, storeVars, agentVars, pc, line, user_input, response, reported,
                   caught, interrupted, reads, saveCalls, closingSaves, completionCalls,
                   entryLen, entrySessionLen, rtVars, clientVars>>
    /\ UNCHANGED <<aliased, activeBy, activeLen, activeSessionLen>>
    /\ UNCHANGED <<argv, environ, agent_config, constructed, promptCalls, lastRequest,
                   exitCode, loads, toolVars>>

NextConfig == LoadConfiguration

SpecConfig == InitConfig /\ [][NextConfig]_vars

(* --------------------------- BashTool alone ------------------------------ *)

\* BashTool(confirmation_required=..., timeout=30) in a process without an agent.
InitTool ==
    /\ InitAgentFields
    /\ environ = PlainEnviron
    /\ bash_tool \in {<<BashToolInit(c, DefaultTimeout)>> : c \in BOOLEAN}
    /\ files = <<>>
    /\ others = {}
    /\ rtSession = <<>>
    /\ rtData = <<>>
    /\ rtResult = <<>>

\* What the calls on the tool leave alone.
ToolFrame ==
    UNCHANGED <<clock, storeVars, agentVars, pc, line, user_input, response, reported,
                caught, interrupted, reads, saveCalls, closingSaves, completionCalls,
                entryLen, entrySessionLen, rtVars, clientVars, aliased, activeBy,
                activeLen, activeSessionLen, argv, environ, agent_config, constructed,
                promptCalls, lastRequest, exitCode, loads>>

\* tool.set_enabled(enabled)
SetEnabled(enabled) ==
    /\ bash_tool # <<>>
    /\ bash_tool' = <<set_enabled(bash_tool[1], enabled)>>
    /\ lastCall' = "set_enabled"
    /\ escaped' = "none"
    /\ UNCHANGED <<callResult, executed>>
    /\ ToolFrame

\* tool.execute_command(command): input() answers the prompt when there is
\* one, and subprocess.run ends as `run` when it is called.
ExecuteCommand(answer, run) ==
    /\ bash_tool # <<>>
    /\ executed < MaxCommands
    /\ LET r == execute_command(bash_tool[1], answer, run)
       IN  /\ callResult' = <<[tool |-> bash_tool[1],
                                answer |-> IF r.prompted THEN <<answer>> ELSE <<>>,
                                run |-> IF r.ran THEN <<run>> ELSE <<>>,
                                out |-> r]>>
           /\ executed' = executed + (IF r.ran THEN 1 ELSE 0)
           /\ escaped' = r.raised
    /\ lastCall' = "execute_command"
    /\ UNCHANGED bash_tool
    /\ ToolFrame

NextTool ==
    \/ \E enabled \in BOOLEAN : SetEnabled(enabled)
    \/ \E answer \in Answers, run \in Runs : ExecuteCommand(answer, run)

SpecTool == InitTool /\ [][NextTool]_vars

(* ------------------ the store and the agent on one directory ------------ *)

\* manager.session_exists(session_id)
StoreExists(session_id, reraises) ==
    /\ LET r == session_exists(files, session_manager, session_id, reraises)
       IN  /\ callResult' = <<[session_id |-> session_id, raised |-> r.raised,
                                exists |-> r.value]>>
           /\ escaped' = r.raised
    /\ lastCall' = "session_exists"
    /\ UNCHANGED <<clock, storeVars, agentVars, pc, line, user_input, response, reported,
                   caught, interrupted, reads, saveCalls, closingSaves, completionCalls,
                   entryLen, entrySessionLen, rtVars, clientVars, toolVars>>
    /\ UNCHANGED <<aliased, activeBy, activeLen, activeSessionLen>>
    /\ UNCHANGED <<argv, environ, agent_config, constructed, promptCalls, lastRequest,
                   exitCode, loads>>

\* A client of SessionManager creates sessions, saves the first of them,
\* and loads, lists and tests sessions in a directory that was empty, and an
\* agent starts a session and saves it there; time passes between the calls,
\* not within one.
NextFrame ==
    \/ \E t \in Times : StoreCreate(t, t)
    \/ \E how \in {"whole", "cut"} : StoreSave(1, how)
    \/ \E session_id \in SessionIds \cup {MissingId} : StoreLoad(session_id, clock)
    \/ StoreList
    \/ \E session_id \in SessionIds \cup {MissingId, LongId}, reraises \in BOOLEAN :
           StoreExists(session_id, reraises)
    \/ current_session = <<>> /\ ApiStartNewSession(clock, clock)
    \/ /\ lastCall = "start_new_session"
       /\ \E how \in {"whole", "cut"} : ApiSaveCurrentSession(how)

SpecFrame == Init /\ [][NextFrame]_vars

(* ------------------------------ claims ---------------------------------- *)

\* The last element of a non-empty sequence.
Last(q) == q[Len(q)]

\* Sequence q is sequence p with exactly one element added at the end.
OneAppended(p, q) == Len(q) = Len(p) + 1 /\ SubSeq(q, 1, Len(p)) = p

\* Sessions a and b agree in id, messages and both timestamps.
SameSession(a, b) ==
    /\ a.session_id = b.session_id
    /\ a.messages = b.messages
    /\ a.created_at = b.created_at
    /\ a.updated_at = b.updated_at

\* C1: every add_message call adds exactly one {role, content} entry at the
\* end of conversation_history; when current_session is set, the same call adds
\* exactly one message with that role and content at the end of
\* current_session.messages; when it is None no session and no file is touched.
C1_AddMessageMirrors ==
    [][addCalls' # addCalls =>
        /\ addCalls' = addCalls + 1
        /\ OneAppended(conversation_history, conversation_history')
        /\ \E m \in ApiMessages :
               Last(conversation_history') = [role |-> m.role, content |-> m.content]
        /\ IF current_session # <<>>
           THEN /\ current_session' # <<>>
                /\ current_session'[1].session_id = current_session[1].session_id
                /\ OneAppended(current_session[1].messages, current_session'[1].messages)
                /\ Last(current_session'[1].messages).role
                       = Last(conversation_history').role
                /\ Last(current_session'[1].messages).content
                       = Last(conversation_history').content
           ELSE current_session' = <<>>
        /\ files' = files
    ]_vars

\* C1 witness: add_message has run with a session set, and has run without one.
C1_Witness ==
    /\ addCalls = 2
    /\ current_session # <<>>
    /\ Len(current_session[1].messages) = 1
    /\ Len(conversation_history) = 2

\* C2: for every session written whole by save_session, load_session of its id
\* by a newly constructed SessionManager, at any later time, returns a session
\* equal in session_id, messages, created_at and updated_at.
C2_LoadReturnsSaved ==
    \A id \in DOMAIN saved : \A t \in Times :
        LET r == load_session(files, SessionManagerInit, id, t)
        IN  IF r.ok THEN SameSession(r.session, saved[id]) ELSE FALSE

\* C2 witness: a session holding a message with escaped characters was saved
\* and then loaded by the new SessionManager of a resume.
C2_Witness ==
    /\ escaped = "none"
    /\ current_session # <<>>
    /\ current_session[1].session_id \in DOMAIN saved
    /\ conversation_history # <<>>
    /\ "timestamp" \in DOMAIN conversation_history[1]
    /\ conversation_history[1].content = TwoLines
    /\ conversation_history = saved[current_session[1].session_id].messages

\* C3: from_dict(to_dict(S)) has S's session_id, messages, created_at and
\* updated_at, whatever the clock reads when from_dict constructs the session.
C3_RoundTrip ==
    rtResult # <<>> => SameSession(rtResult[1], rtSession[1])

\* C3 witness: a session with a message went through to_dict and from_dict at
\* a clock value other than the one of its created_at.
C3_Witness ==
    /\ rtResult # <<>>
    /\ rtSession[1].messages # <<>>
    /\ rtSession[1].created_at # IsoFormat(clock)
    /\ rtSession[1].updated_at # rtSession[1].created_at

\* The messages of the active session.
SessionMessages == current_session[1].messages

\* Entry e is a message of the given role and content.
IsMessage(e, role, content) == e.role = role /\ e.content = content

\* The exit input of the scenarios.
ExitLine == <<"e","x","i","t">>

\* C4: a successful turn, step by step.  Reading a non-empty, non-exit input
\* adds the user message (the stripped input) at the end of the transcript and
\* of the session; when chat_completion returns, the reply is added right
\* after it in both and save_current_session is called once; when that save
\* has run (returned or raised) the loop is back in AwaitingInput with no
\* further save.  So after 'Hello' answered by 'Hi there!', reading 'exit'
\* finds the transcript [user Hello, assistant Hi there!] and makes the second
\* save call, and closing adds none.
C4_SuccessfulTurn ==
    [][ /\ (pc = "AwaitingInput" /\ pc' = "Dispatching") =>
             /\ user_input' = Strip(line')
             /\ conversation_history' =
                    Append(conversation_history,
                           [role |-> "user", content |-> user_input'])
             /\ OneAppended(SessionMessages, SessionMessages')
             /\ IsMessage(Last(SessionMessages'), "user", user_input')
             /\ saveCalls' = saveCalls
        /\ (pc = "Dispatching" /\ pc' = "TurnSave") =>
             /\ response' # <<>>
             /\ IsMessage(Last(conversation_history), "user", user_input)
             /\ conversation_history' =
                    Append(conversation_history,
                           [role |-> "assistant", content |-> response'[1]])
             /\ IsMessage(Last(SessionMessages), "user", user_input)
             /\ OneAppended(SessionMessages, SessionMessages')
             /\ IsMessage(Last(SessionMessages'), "assistant", response'[1])
             /\ saveCalls' = saveCalls + 1
        /\ (pc = "TurnSave" /\ pc' # "InterruptSave") =>
             /\ pc' = "AwaitingInput"
             /\ saveCalls' = saveCalls
             /\ conversation_history' = conversation_history
             /\ current_session' = current_session
        /\ ( /\ pc = "AwaitingInput" /\ reads = 1 /\ reads' = 2
             /\ entryLen = 0 /\ completionCalls = 1
             /\ line = Hello /\ response = <<HiThere>>
             /\ line' = ExitLine ) =>
             /\ pc' = "ExitSave"
             /\ conversation_history' =
                    << [role |-> "user", content |-> Hello],
                       [role |-> "assistant", content |-> HiThere] >>
             /\ saveCalls' = 2
        /\ (pc = "ExitSave" /\ pc' = "Closed") =>
             /\ saveCalls' = saveCalls
             /\ conversation_history' = conversation_history
      ]_vars

\* C4 witness: the loop closed after the inputs 'Hello' and 'exit' with the
\* reply 'Hi there!'.
C4_Witness ==
    /\ pc = "Closed" /\ ~interrupted
    /\ reads = 2 /\ line = ExitLine /\ response = <<HiThere>>
    /\ Len(conversation_history) = 2
    /\ IsMessage(conversation_history[1], "user", Hello)
    /\ IsMessage(conversation_history[2], "assistant", HiThere)
    /\ Len(SessionMessages) = 2
    /\ saveCalls = 2

\* C5 (the claim as stated): when chat_completion raises ModelError the user
\* message stays last in the transcript and in the session, nothing is added,
\* "Error" is printed and the loop is back in AwaitingInput; and an exit
\* keyword read after such a turn calls save_current_session and ends the loop.
C5_ModelErrorThenExit ==
    [][ /\ (pc = "Dispatching" /\ pc' = "AwaitingInput") =>
             /\ reported' = "Error"
             /\ conversation_history' = conversation_history
             /\ current_session' = current_session
             /\ IsMessage(Last(conversation_history), "user", user_input)
             /\ IsMessage(Last(SessionMessages), "user", user_input)
        /\ ( /\ pc = "AwaitingInput" /\ reads' = reads + 1
             /\ conversation_history # <<>>
             /\ Last(conversation_history).role = "user"
             /\ Lower(Strip(line')) \in ExitKeywords ) =>
             /\ pc' = "ExitSave"
             /\ saveCalls' = saveCalls + 1
        /\ ( /\ pc = "ExitSave"
             /\ conversation_history # <<>>
             /\ Last(conversation_history).role = "user" ) =>
             pc' \in {"Closed", "InterruptSave"}
      ]_vars

\* The messages in the stored file of the active session (none without a
\* whole file).
StoredMessages ==
    LET r == load_session(files, session_manager, current_session[1].session_id, clock)
    IN  IF r.ok THEN r.session.messages ELSE <<>>

\* The messages added in this run of the loop that the stored file lacks.
UnsavedMessages ==
    LET stored == StoredMessages
        from == IF /\ Len(stored) <= Len(SessionMessages)
                   /\ SubSeq(SessionMessages, 1, Len(stored)) = stored
                THEN Len(stored) ELSE 0
        first == (IF from > entrySessionLen THEN from ELSE entrySessionLen) + 1
    IN  SubSeq(SessionMessages, first, Len(SessionMessages))

\* The turns a run of messages belongs to: each turn begins with its user message.
TurnsOf(msgs) == Cardinality({i \in 1..Len(msgs) : msgs[i].role = "user"})

\* C6 (the claim as stated): at every point of the loop the messages the
\* stored file lacks belong to at most one turn.
C6_AtMostOneTurnUnsaved ==
    pc \in LoopStates => TurnsOf(UnsavedMessages) <= 1

\* C7 (the claim as stated): when the loop has ended, save_current_session was
\* called exactly once on the way out (at agent.py:107 or :130).
C7_OneSaveOnClose ==
    pc \in {"Closed", "Raised"} => closingSaves = 1

\* C8 (the claim as stated): reading an exit keyword (any case, any padding)
\* adds no message, calls no completion and ends the loop on that input.
C8_ExitKeywordCloses ==
    [][ /\ ( /\ pc = "AwaitingInput" /\ reads' = reads + 1
             /\ Lower(Strip(line')) \in ExitKeywords ) =>
             /\ pc' = "ExitSave"
             /\ conversation_history' = conversation_history
             /\ current_session' = current_session
             /\ completionCalls' = completionCalls
        /\ pc = "ExitSave" =>
             /\ pc' \in {"Closed", "InterruptSave"}
             /\ conversation_history' = conversation_history
             /\ current_session' = current_session
             /\ completionCalls' = completionCalls
      ]_vars

\* C9 (the claim as stated): once the loop has caught an interrupt it saves
\* and returns normally; no exception reaches the caller (a second interrupt
\* raised inside the handler is not the claim's and is let through here).
C9_InterruptReturnsNormally ==
    (interrupted /\ pc # "InterruptSave") =>
        \/ pc = "Closed" /\ escaped = "none"
        \/ escaped = "KeyboardInterrupt"

\* C10: an exception other than KeyboardInterrupt raised in the try block
\* (ModelError, SessionError from a save, EOFError) is printed, as "Error" for
\* ModelError, and leaves the loop in AwaitingInput; the loop ends only from
\* the exit save that returned or after a caught interrupt.
C10_ErrorsKeepLoopRunning ==
    [][ /\ (caught' \in {"ModelError", "SessionError", "EOFError"} /\ pc \in LoopStates) =>
             /\ pc' = "AwaitingInput"
             /\ reported' = IF caught' = "ModelError" THEN "Error" ELSE "Unexpected error"
             /\ escaped' = "none"
        /\ (pc \in LoopStates /\ pc' \notin LoopStates) =>
             \/ pc = "ExitSave" /\ pc' = "Closed" /\ caught' = "none"
             \/ pc = "InterruptSave" /\ interrupted
      ]_vars

\* C10 witness: the per-turn save raised SessionError and the loop went on to
\* read the next input, after a ModelError turn before it.
C10_Witness ==
    /\ pc = "AwaitingInput"
    /\ caught = "SessionError"
    /\ reported = "Unexpected error"
    /\ Len(conversation_history) = 3
    /\ conversation_history[2].role = "user"
    /\ conversation_history[3].role = "assistant"

\* The text is empty or holds only whitespace characters.
IsBlank(text) == \A i \in 1..Len(text) : IsSpace(text[i])

\* C11: when input() returns an empty or whitespace-only line the loop is
\* back in AwaitingInput with nothing done: the transcript, the session, the
\* files, the number of add_message, chat_completion and save calls and the
\* last reply are what they were.
C11_BlankInputNoEffect ==
    [][ (pc = "AwaitingInput" /\ reads' = reads + 1 /\ IsBlank(line')) =>
            /\ pc' = "AwaitingInput"
            /\ conversation_history' = conversation_history
            /\ current_session' = current_session
            /\ files' = files
            /\ addCalls' = addCalls
            /\ completionCalls' = completionCalls
            /\ saveCalls' = saveCalls
            /\ response' = response
            /\ clock' = clock
      ]_vars

\* C11 witness: after a turn, a whitespace-only line was read and the loop
\* waits for input with the turn's two messages and its one save.
C11_Witness ==
    /\ pc = "AwaitingInput"
    /\ reads = 2
    /\ line = <<" ", " ">>
    /\ Len(conversation_history) = 2
    /\ completionCalls = 1
    /\ saveCalls = 1

\* The entries of a message list with only role and content kept.
RoleContent(msgs) ==
    [i \in 1..Len(msgs) |-> [role |-> msgs[i].role, content |-> msgs[i].content]]

\* C12 (the claim as stated): right after resume_from_session(S) the session
\* is S and the transcript holds one {role, content} entry per message of S,
\* in order, without the timestamps.
C12_ResumeStripsTimestamps ==
    lastCall = "resume_from_session" =>
        /\ current_session # <<>>
        /\ conversation_history = RoleContent(SessionMessages)

\* C13: once resume_from_session(S) has set the session, every add_message
\* call adds exactly one entry to the transcript and exactly one message to
\* S.messages, and from the resume on the two have the same length and the
\* same role and content at every position.
C13_ResumedAppendsInStep ==
    [][ /\ (activeBy = "resume_from_session" /\ addCalls' = addCalls + 1) =>
             /\ Len(conversation_history') = Len(conversation_history) + 1
             /\ Len(SessionMessages') = Len(SessionMessages) + 1
        /\ activeBy' = "resume_from_session" =>
             /\ current_session' # <<>>
             /\ RoleContent(conversation_history') = RoleContent(SessionMessages')
      ]_vars

\* C13 witness: a session with a message was resumed and a message was added.
C13_Witness ==
    /\ activeBy = "resume_from_session"
    /\ lastCall = "add_message"
    /\ activeLen = 1
    /\ Len(conversation_history) = 2
    /\ Len(SessionMessages) = 2

\* C14 (the claim as stated): while a session is set, the transcript and the
\* session's messages have the same length and pairwise the same content,
\* whatever was called before the session was set.
C14_TranscriptMatchesSession ==
    current_session # <<>> =>
        /\ Len(conversation_history) = Len(SessionMessages)
        /\ \A i \in 1..Len(conversation_history) :
               i <= Len(SessionMessages) =>
                   conversation_history[i].content = SessionMessages[i].content

\* C14 (amended): while a session is set, the entries added to the transcript
\* since the session was set and the messages added to the session since then
\* are as many, with pairwise the same role and content; the entries the
\* transcript held before stay in front of them.
C14_AppendsSinceActive ==
    current_session # <<>> =>
        /\ Len(conversation_history) >= activeLen
        /\ Len(SessionMessages) >= activeSessionLen
        /\ Len(conversation_history) - activeLen = Len(SessionMessages) - activeSessionLen
        /\ \A k \in 1..(Len(conversation_history) - activeLen) :
               /\ conversation_history[activeLen + k].content
                      = SessionMessages[activeSessionLen + k].content
               /\ conversation_history[activeLen + k].role
                      = SessionMessages[activeSessionLen + k].role

\* C14 witness: a message was added, a session started and a message added:
\* the transcript holds two entries and the session one message.
C14_Witness ==
    /\ activeBy = "start_new_session"
    /\ lastCall = "add_message"
    /\ activeLen = 1
    /\ Len(conversation_history) = 2
    /\ Len(SessionMessages) = 1
    /\ SessionMessages[1].content = conversation_history[2].content

\* C15: a start_new_session call sets current_session to a session without
\* messages whose id is the second of the clock, and leaves the transcript
\* and the files as they were; from then on the session holds exactly the
\* messages added after the call, none of the entries the transcript had.
C15_StartNewSessionFrame ==
    [][ /\ (lastCall' = "start_new_session" /\ apiCalls' = apiCalls + 1) =>
             /\ current_session' # <<>>
             /\ SessionMessages' = <<>>
             /\ current_session'[1].session_id \in {GenerateSessionId(t) : t \in clock..clock'}
             /\ conversation_history' = conversation_history
             /\ files' = files
        /\ activeBy' = "start_new_session" =>
             /\ Len(SessionMessages') = Len(conversation_history') - activeLen'
             /\ RoleContent(SessionMessages') =
                    SubSeq(conversation_history', activeLen' + 1, Len(conversation_history'))
      ]_vars

\* C15 witness: start_new_session was called with an entry in the transcript.
C15_Witness ==
    /\ lastCall = "start_new_session"
    /\ conversation_history # <<>>
    /\ current_session # <<>>
    /\ SessionMessages = <<>>

\* What load_session raises for a file that exists and cannot be decoded.
UndecodableFailure ==
    load_session(SessionPath(SessionManagerInit, 0) :> CutFile, SessionManagerInit, 0, 0)

C17_LoadTwoOutcomes ==
    (loadResult # <<>> /\ loadResult[1].existed) =>
        \/ loadResult[1].result.ok
        \/ /\ loadResult[1].result.error = "SessionError"
           /\ loadResult[1].result.message = "Failed to load session"

\* C18 (the claim as stated): list_sessions returns the ids of the files whose
\* name ends in ".json", the suffix taken off: every id listed is the name of
\* such a file without the suffix, every such file is listed, no id twice, in
\* descending order; names without the suffix give no id.
C18_ListIsJsonIds ==
    listResult # <<>> =>
        LET ids == listResult[1].ids
            names == listResult[1].names
        IN  /\ \A i \in 1..Len(ids) : (ids[i] \o JsonSuffix) \in names
            /\ \A n \in names :
                   (GlobJson(n) /\ Len(n) > Len(JsonSuffix)) =>
                       \E i \in 1..Len(ids) :
                           ids[i] = SubSeq(n, 1, Len(n) - Len(JsonSuffix))
            /\ \A i, j \in 1..Len(ids) : i < j => Less(ids[j], ids[i])

\* The files whose path carries the given session id.
FilesOf(session_id) == {p \in DOMAIN files : p[Len(p) - 1] = session_id}

\* C19 (the claim as stated): after any save_session calls, the id of every
\* session saved has one file, and it holds the serialization of the session
\* saved last under that id.
C19_FileHoldsLastSaved ==
    \A id \in DOMAIN saveLog :
        /\ Cardinality(FilesOf(id)) = 1
        /\ \A p \in FilesOf(id) : files[p] = WholeFile(saveLog[id].session)

C21_UpdatedNotBeforeCreated ==
    \A s \in {rtResult[i] : i \in 1..Len(rtResult)} :
        IsoLeq(s.created_at, s.updated_at)

\* Sequence p is a prefix of sequence q.
IsPrefix(p, q) == Len(p) <= Len(q) /\ SubSeq(q, 1, Len(p)) = p

\* C22: the messages of the active session are append-only: every step of
\* add_message, of the interactive loop and of save_current_session that finds
\* a session set and leaves the same session set keeps the old message list as
\* a prefix of the new one and leaves session_id and created_at as they were.
C22_SessionAppendOnly ==
    [][(/\ current_session # <<>>
        /\ current_session' # <<>>
        /\ \/ apiCalls' = apiCalls
           \/ lastCall' \in {"add_message", "save_current_session"})
       => /\ IsPrefix(current_session[1].messages, current_session'[1].messages)
          /\ current_session'[1].session_id = current_session[1].session_id
          /\ current_session'[1].created_at = current_session[1].created_at]_vars

\* A resumed session took a turn of the loop after its stored message, and
\* was saved.
C22_Witness ==
    /\ activeBy = "resume_from_session"
    /\ pc = "AwaitingInput"
    /\ Len(current_session[1].messages) = 3
    /\ saveCalls = 1
    /\ caught = "none"

\* C23: every step other than a resume_from_session call (add_message,
\* start_new_session, save_current_session, chat_completion,
\* process_single_prompt, each transition of the interactive loop) keeps the
\* old conversation_history as a prefix of the new one.
C23_TranscriptAppendOnly ==
    [][(apiCalls' = apiCalls \/ lastCall' # "resume_from_session")
       => IsPrefix(conversation_history, conversation_history')]_vars

\* A message was added, start_new_session was called on the transcript of one
\* entry, and a turn of the loop followed.
C23_Witness ==
    /\ lastCall = "start_new_session"
    /\ addCalls = 3
    /\ Len(conversation_history) = 3
    /\ pc = "TurnSave"

\* C24: save_current_session without a session does nothing; with one it
\* makes a single save_session write of that session, to the file of its id
\* only, a SessionError of that save reaches the caller, and in each case the
\* transcript and the session in memory are left as they were.
C24_SaveCurrentSession ==
    [][(lastCall' = "save_current_session" /\ apiCalls' = apiCalls + 1)
       => /\ conversation_history' = conversation_history
          /\ current_session' = current_session
          /\ IF current_session = <<>>
             THEN files' = files /\ escaped' = "none"
             ELSE LET s == current_session[1]
                      path == SessionPath(session_manager, s.session_id)
                  IN  /\ DOMAIN files' = DOMAIN files \cup {path}
                         \/ DOMAIN files' = DOMAIN files
                      /\ \A p \in DOMAIN files \ {path} : files'[p] = files[p]
                      /\ \/ /\ escaped' = "none"
                            /\ path \in DOMAIN files'
                            /\ files'[path] = WholeFile(s)
                         \/ /\ escaped' = "SessionError"
                            /\ \/ files' = files
                               \/ path \in DOMAIN files' /\ files'[path] = CutFile]_vars

\* A save of a session with a message raised SessionError to the caller.
C24_Witness ==
    /\ lastCall = "save_current_session"
    /\ escaped = "SessionError"
    /\ current_session # <<>>
    /\ current_session[1].messages # <<>>
    /\ conversation_history # <<>>

\* C25: chat_completion returns the completion's text, the empty text when
\* the content is None, or raises ModelError that wraps what the completion
\* call raised: for every failure of that call (an exception class other than
\* the keyboard interrupt) nothing but ModelError leaves it, and
\* process_single_prompt hands the ModelError on to its caller.
C25_CompletionOrModelError ==
    (lastCall \in {"chat_completion", "process_single_prompt"})
    => LET o == callResult[1].outcome
           r == callResult[1].result
       IN  /\ o.kind = "returns"
              => /\ r.ok
                 /\ r.value = (IF o.is_none THEN <<>> ELSE o.content)
                 /\ escaped = "none"
           /\ (o.kind = "raises" /\ o.exception # "KeyboardInterrupt")
              => /\ ~r.ok
                 /\ r.error = "ModelError"
                 /\ r.cause = o.exception
                 /\ escaped = "ModelError"

\* process_single_prompt was called while the completion call failed on
\* authentication.
C25_Witness ==
    /\ lastCall = "process_single_prompt"
    /\ callResult[1].outcome.exception = "AuthenticationError"
    /\ escaped = "ModelError"

\* C27: a process_single_prompt call that returns has added the user prompt
\* and the assistant response, in this order, to conversation_history.
C27_PromptRecordsExchange ==
    [][(lastCall' = "process_single_prompt" /\ apiCalls' = apiCalls + 1
        /\ escaped' = "none")
       => /\ Len(conversation_history') = Len(conversation_history) + 2
          /\ IsPrefix(conversation_history, conversation_history')
          /\ LET n == Len(conversation_history')
             IN  /\ conversation_history'[n - 1] =
                        [role |-> "user", content |-> Last(promptCalls')]
                 /\ conversation_history'[n] =
                        [role |-> "assistant", content |-> callResult'[1].result.value]]_vars

\* C26: the directory of the SessionManager is the configured session_dir
\* (configuration file or SESSION_DIR), the default one only when nothing
\* else is configured.
C26_ConfiguredDirectoryUsed ==
    (constructed > 0 /\ agent_config # <<>>)
    => session_manager.sessions_dir = agent_config[1].session_dir

\* The mode options of main that were given.
OptionsGiven == {k \in {"prompt", "input_file", "session_id"} : argv[k] # <<>>}

\* main has not returned a conflict and has left no trace of a run: no agent,
\* no completion request, no session loaded, created or saved.
NothingRun ==
    /\ constructed = 0
    /\ lastRequest = <<>>
    /\ promptCalls = <<>>
    /\ loads = 0
    /\ current_session = <<>>
    /\ saved = <<>>

\* C28, as stated: when more than one of --prompt, --file and --resume is
\* given, main reports that they cannot be used together and returns 2, with
\* no agent constructed, no completion requested and no session touched.
C28_ConflictReturnsTwo ==
    (Cardinality(OptionsGiven) > 1 /\ pc # "Main")
    => /\ pc = "Exited"
       /\ exitCode = <<2>>
       /\ reported = "Cannot use --prompt, --file, and --resume together"
       /\ NothingRun

\* C28, amended: with more than one of the options given, main returns 2
\* with that report when the configuration loaded, and 1 with a configuration
\* error when it did not; on both paths no agent is constructed, no
\* completion is requested and no session is loaded, created or saved.
C28_ConflictAfterConfiguration ==
    (Cardinality(OptionsGiven) > 1 /\ pc # "Main")
    => /\ pc = "Exited"
       /\ NothingRun
       /\ IF load_configuration(environ.file, environ.env).ok
          THEN /\ exitCode = <<2>>
               /\ reported = "Cannot use --prompt, --file, and --resume together"
          ELSE /\ exitCode = <<1>>
               /\ reported = "Configuration error"

\* main returned 2 for an empty prompt given together with a session id.
C28_Witness ==
    /\ argv.prompt = << <<>> >>
    /\ argv.session_id # <<>>
    /\ argv.input_file = <<>>
    /\ exitCode = <<2>>

\* C29: with --prompt given and no other mode option, main never enters the
\* interactive loop and starts no session, whatever the prompt string, and a
\* run that returns 0 has called process_single_prompt once, with the prompt.
C29_PromptRunsSingleShot ==
    (OptionsGiven = {"prompt"})
    => /\ pc \in {"Main", "Dispatch", "Exited"}
       /\ current_session = <<>>
       /\ exitCode = <<0>> => promptCalls = <<argv.prompt[1]>>

\* C30: in resume mode, a load that fails is reported as a session error and
\* main returns 1, without the loop and with no session created or saved; a
\* load that succeeds makes the loaded session the active one before the loop
\* starts.
C30_ResumeFailureIsSessionError ==
    (OptionsGiven = {"session_id"} /\ loads > 0)
    => IF load_session(files, SessionManagerInit, argv.session_id[1], clock).ok
       THEN /\ pc \in {"Idle"} \cup LoopStates
            /\ current_session # <<>>
            /\ current_session[1].session_id = argv.session_id[1]
            /\ activeBy = "resume_from_session"
       ELSE /\ pc = "Exited"
            /\ reported = "Session error"
            /\ exitCode = <<1>>
            /\ current_session = <<>>
            /\ saved = <<>>

\* A positive integer as validate_config takes it (True is the integer 1).
PositiveInteger(x) == x.type \in {"int", "bool"} /\ x.num > 0

\* A number from 0 to 2.
WithinZeroAndTwo(x) ==
    x.type \in {"int", "bool", "float"} /\ 0 <= x.num /\ x.num <= 2 * x.den

\* C31: load_configuration either returns a configuration whose timeout and
\* max_tokens are positive integers and whose temperature lies in [0, 2], or
\* fails with ConfigurationError, whatever the file and the environment hold.
C31_ValidOrConfigurationError ==
    (lastCall = "load_configuration" /\ callResult # <<>>) =>
        IF callResult[1].ok
        THEN /\ PositiveInteger(callResult[1].config.timeout)
             /\ PositiveInteger(callResult[1].config.max_tokens)
             /\ WithinZeroAndTwo(callResult[1].config.temperature)
        ELSE callResult[1].error = "ConfigurationError"

\* The last call was execute_command.
Executed == lastCall = "execute_command" /\ callResult # <<>>

\* The answer to the prompt is y or yes, in any case and with blanks around.
SaysYes(answer) ==
    /\ answer.kind = "returns"
    /\ Lower(Strip(answer.text)) \in {<<"y">>, <<"y","e","s">>}

\* C32: execute_command does not run the command when the tool is disabled
\* (it raises BashToolError and shows no prompt) nor when confirmation is
\* required and the answer is not y or yes (it returns the cancelled result);
\* the command runs only when the tool is enabled and, if confirmation is
\* required, confirmed.
C32_GatedExecution ==
    Executed =>
        LET c == callResult[1]
        IN  /\ ~c.tool.enabled =>
                   c.out.raised = "BashToolError" /\ ~c.out.prompted /\ ~c.out.ran
            /\ (c.tool.enabled /\ c.tool.confirmation_required
                    /\ c.answer # <<>> /\ c.answer[1].kind = "returns"
                    /\ ~SaysYes(c.answer[1])) =>
                   /\ ~c.out.ran
                   /\ c.out.raised = "none"
                   /\ c.out.result = <<CancelledResult>>
                   /\ ~c.out.result[1].success /\ c.out.result[1].exit_code = 1
            /\ c.out.ran =>
                   /\ c.tool.enabled
                   /\ c.tool.confirmation_required =>
                          c.answer # <<>> /\ SaysYes(c.answer[1])

\* A command ran, and then a prompt was answered with something else than
\* yes and the call returned the cancelled result.
C32_Witness ==
    /\ Executed
    /\ callResult[1].tool.confirmation_required
    /\ callResult[1].answer # <<>> /\ ~SaysYes(callResult[1].answer[1])
    /\ callResult[1].out.result = <<CancelledResult>>
    /\ executed > 0

OnlyFileOf(id) ==
    \A path \in DOMAIN files' :
        path # session_manager.sessions_dir \o <<id, ".json">> =>
            path \in DOMAIN files /\ files'[path] = files[path]

\* C33: interactive_loop starts a session exactly when none is set at entry;
\* after resume_from_session(S) every step of the loop leaves S the active
\* session, every message the loop adds is appended to S.messages, and no
\* step writes another file than the one of S's id.
C33_LoopKeepsResumedSession ==
    [][ /\ (pc = "Idle" /\ pc' = "AwaitingInput") =>
             /\ current_session = <<>> =>
                    /\ current_session' # <<>>
                    /\ current_session'[1].messages = <<>>
                    /\ activeBy' = "start_new_session"
             /\ current_session # <<>> =>
                    current_session' = current_session /\ activeBy' = activeBy
        /\ (activeBy = "resume_from_session" /\ pc' \in LoopStates \cup {"Closed", "Raised"}) =>
             /\ activeBy' = "resume_from_session"
             /\ current_session' # <<>>
             /\ current_session'[1].session_id = current_session[1].session_id
             /\ IsPrefix(current_session[1].messages, current_session'[1].messages)
             /\ addCalls' = addCalls + 1 =>
                    /\ Len(current_session'[1].messages)
                           = Len(current_session[1].messages) + 1
                    /\ Last(current_session'[1].messages).content
                           = Last(conversation_history').content
             /\ OnlyFileOf(current_session[1].session_id)
      ]_vars

\* The stored session was resumed, the loop took a whole turn on it and saved
\* it: its file holds the stored message and the two of the turn.
C33_Witness ==
    /\ activeBy = "resume_from_session"
    /\ pc = "AwaitingInput"
    /\ completionCalls = 1
    /\ saveCalls = 1
    /\ caught = "none"
    /\ current_session[1].session_id \in DOMAIN saved
    /\ Len(saved[current_session[1].session_id].messages) = 3
    /\ files[SessionPath(session_manager, current_session[1].session_id)]
           = WholeFile(current_session[1])

\* C34: from_dict on a record with session_id returns a session whatever
\* else the record lacks: messages missing gives the empty list, a missing
\* created_at or updated_at the time of the call, and every field the record
\* has is the session's.
C34_MissingFieldsDefault ==
    [][(rtResult = <<>> /\ rtResult' # <<>>) =>
          LET data == rtData[1]
              session == rtResult'[1]
              now == IsoFormat(clock')
          IN  /\ session.session_id = data["session_id"]
              /\ session.messages =
                     IF "messages" \in DOMAIN data THEN data["messages"] ELSE <<>>
              /\ session.created_at =
                     IF "created_at" \in DOMAIN data THEN data["created_at"] ELSE now
              /\ session.updated_at =
                     IF "updated_at" \in DOMAIN data THEN data["updated_at"] ELSE now
       ]_vars

\* A record with session_id and created_at only was read later than it was
\* written: the session has no messages, the record's created_at and the time
\* of the call as updated_at.
C34_Witness ==
    /\ rtResult # <<>>
    /\ DOMAIN rtData[1] = {"session_id", "created_at"}
    /\ rtResult[1].messages = <<>>
    /\ rtResult[1].created_at = rtData[1]["created_at"]
    /\ rtResult[1].updated_at = IsoFormat(clock)
    /\ rtResult[1].updated_at # rtResult[1].created_at

\* C35: create_session, load_session, list_sessions and session_exists leave
\* every file as it is (a created session gets no file from them), and
\* session_exists does not raise; no step of the store or of the agent
\* removes a file.
C35_ReadsLeaveFilesAlone ==
    [][ /\ (\/ Len(held') > Len(held)
            \/ loadResult' # loadResult
            \/ listResult' # listResult
            \/ callResult' # callResult) => files' = files
        /\ callResult' # callResult => callResult'[1].raised = "none"
        /\ \A path \in DOMAIN files : path \in DOMAIN files'
      ]_vars

\* C37: every chat_completion call of the loop is given the whole transcript,
\* which keeps what it held before the turn (the user messages of failed
\* turns with it) and ends with the user message of the turn; and every
\* assistant entry the loop adds comes right after that user entry.
C37_RequestIsTranscript ==
    [][ /\ (pc \in LoopStates /\ completionCalls' = completionCalls + 1) =>
             /\ lastRequest' = <<conversation_history'>>
             /\ IsPrefix(conversation_history, lastRequest'[1])
             /\ Len(lastRequest'[1]) = Len(conversation_history) + 1
             /\ IsMessage(Last(lastRequest'[1]), "user", user_input')
        /\ (pc = "Dispatching" /\ Len(conversation_history') > Len(conversation_history)) =>
             /\ conversation_history = lastRequest[1]
             /\ IsMessage(Last(conversation_history), "user", user_input)
             /\ OneAppended(conversation_history, conversation_history')
             /\ Last(conversation_history').role = "assistant"
      ]_vars

\* A turn failed and left its user message; the request of the next turn
\* holds both user messages.
C37_Witness ==
    /\ pc = "Dispatching"
    /\ completionCalls = 2
    /\ lastRequest # <<>>
    /\ Len(lastRequest[1]) = 2
    /\ lastRequest[1][1].role = "user"
    /\ lastRequest[1][2].role = "user"

\* C38: when input() raises EOFError the loop reports an unexpected error and
\* waits for input again: it makes no save call, writes no file, adds no
\* message and does not end.
C38_EndOfInputGoesOn ==
    [][ caught' = "EOFError" =>
            /\ pc = "AwaitingInput"
            /\ pc' = "AwaitingInput"
            /\ reported' = "Unexpected error"
            /\ escaped' = "none"
            /\ saveCalls' = saveCalls
            /\ closingSaves' = closingSaves
            /\ files' = files
            /\ conversation_history' = conversation_history
            /\ current_session' = current_session
      ]_vars

\* After a whole turn input() raised EOFError: the loop waits for input with
\* the one save of the turn.
C38_Witness ==
    /\ caught = "EOFError"
    /\ pc = "AwaitingInput"
    /\ reported = "Unexpected error"
    /\ Len(conversation_history) = 2
    /\ saveCalls = 1

====
